---- MODULE Spec2Model ----
(***************************************************************************)
(* A model of the lore-creator core of novelai-scene-visualizer: fuzzy     *)
(* name matching, partitionElements, the hybrid provider wrapper and the   *)
(* scanForLore orchestrator.                                               *)
(*                                                                         *)
(* Strings are sequences of one-character strings, so that toLowerCase,    *)
(* trim, includes and the edit distance are computed as the code computes  *)
(* them.  Scores are the code's scores times ten (1.0 -> 10, 0.8 -> 8,     *)
(* 0.7 -> 7).                                                              *)
(***************************************************************************)
EXTENDS Integers, Sequences, FiniteSets, TLC

VARIABLES
    mode,            \* which entry point this behaviour exercises
    \* ---- partitionElements, called on its own
    pElements,       \* argument: the identified elements
    pEntries,        \* argument: existingEntries
    pState,          \* argument: state
    pResult,         \* its return value (or NotCalled)
    \* ---- createHybridProviders closure
    hasSecondary,    \* whether a secondaryFn was passed
    secondaryAlive,  \* let secondaryAlive
    failCount,       \* let failCount
    \* ---- a caller of the wrapper on its own
    hcalls,          \* the wrappedSecondary calls made so far
    secLog,          \* outcomes of secondaryFn, in the order they settled
    seen,            \* what isHybrid()/getProviders() last returned
    \* ---- one call of scanForLore
    storyLen,        \* storyText.trim().length
    settings,        \* settings
    lorebook,        \* existingEntries
    stateRef,        \* state: a reference into the heap
    heap,            \* the objects and arrays the references point to
    inputSnapshot,   \* the arguments as they were when the call was made
    pc,              \* where the call stands
    part,            \* the three lists partitionElements returned
    updatedState,    \* const updatedState: a reference (0 before it exists)
    work,            \* the list the running loop iterates over
    loopI,           \* the loop index i
    batch,           \* the promises of the running batch
    counters,        \* generated, mergesFound, ... and mergeCount
    olog,            \* the oracle's answers, per pass and element
    result,          \* what the call returned
    \* ---- a function called on its own
    fnCall,          \* the function and its arguments
    fnOut,           \* its return value (or NoOutput)
    \* ---- the caller of organizeLorebook
    dismissedCleanupIds  \* the ids of the cleanups the user dismissed

vars == <<mode, pElements, pEntries, pState, pResult,
          hasSecondary, secondaryAlive, failCount, hcalls, secLog, seen,
          storyLen, settings, lorebook, stateRef, heap, inputSnapshot,
          pc, part, updatedState, work, loopI, batch, counters, olog, result,
          fnCall, fnOut, dismissedCleanupIds>>

fnVars == <<fnCall, fnOut, dismissedCleanupIds>>

scanVars == <<storyLen, settings, lorebook, stateRef, heap, inputSnapshot,
              pc, part, updatedState, work, loopI, batch, counters, olog, result>>

partVars == <<pElements, pEntries, pState, pResult>>
closureVars == <<hasSecondary, secondaryAlive, failCount>>
callerVars == <<hcalls, secLog, seen>>
hybridVars == <<hasSecondary, secondaryAlive, failCount, hcalls, secLog, seen>>

\* ------------------------------------------------------------------------
\* Strings
\* ------------------------------------------------------------------------

\* String.prototype.toLowerCase, one character
LowerChar(c) ==
    CASE c = "A" -> "a"
      [] c = "B" -> "b"
      [] c = "K" -> "k"
      [] c = "M" -> "m"
      [] c = "S" -> "s"
      [] c = "X" -> "x"
      [] OTHER -> c

toLowerCase(s) == [i \in 1..Len(s) |-> LowerChar(s[i])]

RECURSIVE trimStart(_)
trimStart(s) == IF s # <<>> /\ Head(s) = " " THEN trimStart(Tail(s)) ELSE s

RECURSIVE trimEnd(_)
trimEnd(s) ==
    IF s # <<>> /\ s[Len(s)] = " " THEN trimEnd(SubSeq(s, 1, Len(s) - 1)) ELSE s

trim(s) == trimEnd(trimStart(s))

\* String.prototype.includes
includes(s, t) ==
    \E i \in 0..(Len(s) - Len(t)) : SubSeq(s, i + 1, i + Len(t)) = t

Min2(a, b) == IF a < b THEN a ELSE b

\* one row of the dp table: row[k] is dp[i][k-1]
RECURSIVE LevRow(_, _, _, _, _)
LevRow(prev, ai, b, j, acc) ==
    IF j > Len(b) THEN acc
    ELSE LET v == IF ai = b[j]
                  THEN prev[j]
                  ELSE 1 + Min2(prev[j + 1], Min2(acc[j], prev[j]))
         IN  LevRow(prev, ai, b, j + 1, Append(acc, v))

RECURSIVE LevRows(_, _, _, _)
LevRows(a, b, i, prev) ==
    IF i > Len(a) THEN prev
    ELSE LevRows(a, b, i + 1, LevRow(prev, a[i], b, 1, <<i>>))

levenshteinDistance(a, b) ==
    LevRows(a, b, 1, [k \in 1..(Len(b) + 1) |-> k - 1])[Len(b) + 1]

\* ------------------------------------------------------------------------
\* Fuzzy matching
\* ------------------------------------------------------------------------

FuzzyThreshold == 7
ShortNameLen == 20
MaxEditDistance == 2

fuzzyNameScoreNoExact(a, b) ==
    LET al == trim(toLowerCase(a))
        bl == trim(toLowerCase(b))
    IN  IF al = <<>> \/ bl = <<>> THEN 0
        ELSE IF includes(al, bl) \/ includes(bl, al) THEN 8
        ELSE IF Len(al) <= ShortNameLen /\ Len(bl) <= ShortNameLen
                /\ levenshteinDistance(al, bl) <= MaxEditDistance THEN 7
        ELSE 0

fuzzyNameScore(a, b) ==
    LET al == trim(toLowerCase(a))
        bl == trim(toLowerCase(b))
    IN  IF al = <<>> \/ bl = <<>> THEN 0
        ELSE IF al = bl THEN 10
        ELSE IF includes(al, bl) \/ includes(bl, al) THEN 8
        ELSE IF Len(al) <= ShortNameLen /\ Len(bl) <= ShortNameLen
                /\ levenshteinDistance(al, bl) <= MaxEditDistance THEN 7
        ELSE 0

NoMatch == [idx |-> 0, score |-> 0, matchedOn |-> "none"]

\* the inner loop of fuzzyFindEntry over one entry's keys
RECURSIVE FindInKeys(_, _, _, _, _, _)
FindInKeys(name, keys, k, idx, threshold, best) ==
    IF k > Len(keys) THEN best
    ELSE LET kScore == fuzzyNameScore(name, keys[k])
             nb == IF kScore >= threshold /\ (best.idx = 0 \/ kScore > best.score)
                   THEN [idx |-> idx, score |-> kScore, matchedOn |-> "key"]
                   ELSE best
         IN  FindInKeys(name, keys, k + 1, idx, threshold, nb)

RECURSIVE FindFrom(_, _, _, _, _)
FindFrom(name, entries, i, threshold, best) ==
    IF i > Len(entries) THEN best
    ELSE LET dnScore == fuzzyNameScore(name, entries[i].displayName)
             b1 == IF dnScore >= threshold /\ (best.idx = 0 \/ dnScore > best.score)
                   THEN [idx |-> i, score |-> dnScore, matchedOn |-> "displayName"]
                   ELSE best
             b2 == FindInKeys(name, entries[i].keys, 1, i, threshold, b1)
         IN  FindFrom(name, entries, i + 1, threshold, b2)

\* returns NoMatch for null, else the index of the entry with score and field
fuzzyFindEntry(name, existingEntries) ==
    FindFrom(name, existingEntries, 1, FuzzyThreshold, NoMatch)

fuzzyMatchInSet(name, nameSet) ==
    \E existing \in nameSet : fuzzyNameScore(name, existing) >= FuzzyThreshold

\* ------------------------------------------------------------------------
\* Data
\* ------------------------------------------------------------------------

Range(s) == {s[i] : i \in 1..Len(s)}

\* names used by the bounded inputs
Kael  == <<"K", "a", "e", "l">>
KaelL == <<"k", "a", "e", "l">>
KaelS == <<"K", "a", "e", "l", " ", "S">>
Kaen  == <<"K", "a", "e", "n">>
Mira  == <<"M", "i", "r", "a">>
Bo    == <<"B", "o">>
LongA == [i \in 1..21 |-> IF i = 21 THEN "a" ELSE "x"]
LongB == [i \in 1..21 |-> IF i = 21 THEN "b" ELSE "x"]

Arrow == <<"-", ">">>

Element(name, category, mergesWith) ==
    [name |-> name, category |-> category, mergesWith |-> mergesWith]

Entry(displayName, keys, text, category) ==
    [displayName |-> displayName, keys |-> keys, text |-> text,
     category |-> category]

\* ------------------------------------------------------------------------
\* partitionElements
\* ------------------------------------------------------------------------

NamesAndKeys(list) ==
    {toLowerCase(x.displayName) : x \in Range(list)}
        \cup UNION {{toLowerCase(k) : k \in Range(x.keys)} : x \in Range(list)}

excludeNames(state) ==
    NamesAndKeys(state.pendingEntries)
        \cup NamesAndKeys(state.pendingUpdates)
        \cup {toLowerCase(m.newName) : m \in Range(state.pendingMerges)}
        \cup {toLowerCase(r) : r \in Range(state.rejectedNames)}
        \cup {toLowerCase(d) : d \in Range(state.dismissedUpdateNames)}

pendingMergeTargets(state) ==
    {toLowerCase(m.existingDisplayName) : m \in Range(state.pendingMerges)}

rejectedMergePairs(state) ==
    {toLowerCase(p) : p \in Range(state.rejectedMergeNames)}

MapSet(m, k, v) == [x \in (DOMAIN m) \cup {k} |-> IF x = k THEN v ELSE m[x]]
MapGet(m, k) == IF k \in DOMAIN m THEN m[k] ELSE 0

RECURSIVE MapKeys(_, _, _, _)
MapKeys(m, keys, k, idx) ==
    IF k > Len(keys) THEN m
    ELSE LET kl == toLowerCase(keys[k])
         IN  MapKeys(IF kl \in DOMAIN m THEN m ELSE MapSet(m, kl, idx),
                     keys, k + 1, idx)

RECURSIVE MapEntries(_, _, _)
MapEntries(m, entries, i) ==
    IF i > Len(entries) THEN m
    ELSE LET e == entries[i]
             m1 == IF e.displayName # <<>>
                   THEN MapSet(m, toLowerCase(e.displayName), i)
                   ELSE m
         IN  MapEntries(MapKeys(m1, e.keys, 1, i), entries, i + 1)

\* the name -> entry map, as a map from lower-cased names to entry indexes
entryByName(existingEntries) == MapEntries(<<>>, existingEntries, 1)

EmptyPartition ==
    [newElements |-> <<>>, existingElements |-> <<>>, mergeElements |-> <<>>]

PushNew(acc, el) ==
    [acc EXCEPT !.newElements =
        Append(@, [name |-> el.name, category |-> el.category])]

PushExisting(acc, el, entry) ==
    [acc EXCEPT !.existingElements =
        Append(@, [name |-> el.name, category |-> el.category, entry |-> entry])]

PushMerge(acc, el, entry) ==
    [acc EXCEPT !.mergeElements =
        Append(@, [name |-> el.name, category |-> el.category,
                   mergeTarget |-> IF entry.displayName # <<>>
                                   THEN entry.displayName ELSE el.mergesWith,
                   entry |-> entry])]

\* exact lookup in the map, then fuzzyFindEntry; 0 when neither finds an entry
ResolveEntry(name, existingEntries) ==
    LET direct == MapGet(entryByName(existingEntries), toLowerCase(name))
    IN  IF direct # 0 THEN direct ELSE fuzzyFindEntry(name, existingEntries).idx

\* the tail of the loop body: existing or new
ResolveExisting(el, acc, existingEntries) ==
    LET matched == ResolveEntry(el.name, existingEntries)
    IN  IF matched # 0
        THEN PushExisting(acc, el, existingEntries[matched])
        ELSE PushNew(acc, el)

IsExcludedExactOnly(el, excluded) == toLowerCase(el.name) \in excluded

\* the skip test at the head of the loop body
IsExcluded(el, excluded) ==
    toLowerCase(el.name) \in excluded \/ fuzzyMatchInSet(el.name, excluded)

OnRejectedPairFallThrough(el, acc, existingEntries) ==
    ResolveExisting(el, PushNew(acc, el), existingEntries)

\* a merge hint whose pair was rejected: the element is new, and the loop continues
OnRejectedPair(el, acc, existingEntries) == PushNew(acc, el)

\* the merge branch without the test for a target that a pending merge claims
MergeBranchUnclaimed(el, acc, existingEntries, state) ==
    LET mergePairKey == toLowerCase(el.name) \o Arrow \o toLowerCase(el.mergesWith)
        target == ResolveEntry(el.mergesWith, existingEntries)
    IN  IF mergePairKey \in rejectedMergePairs(state)
        THEN OnRejectedPair(el, acc, existingEntries)
        ELSE IF target # 0
        THEN PushMerge(acc, el, existingEntries[target])
        ELSE ResolveExisting(el, acc, existingEntries)

MergeBranch(el, acc, existingEntries, state) ==
    LET mergePairKey == toLowerCase(el.name) \o Arrow \o toLowerCase(el.mergesWith)
        target == ResolveEntry(el.mergesWith, existingEntries)
    IN  IF mergePairKey \in rejectedMergePairs(state)
        THEN OnRejectedPair(el, acc, existingEntries)
        ELSE IF target # 0
        THEN LET mergeTarget == existingEntries[target]
                 targetName == toLowerCase(IF mergeTarget.displayName # <<>>
                                           THEN mergeTarget.displayName
                                           ELSE el.mergesWith)
             IN  IF targetName \in pendingMergeTargets(state)
                 THEN PushNew(acc, el)
                 ELSE PushMerge(acc, el, mergeTarget)
        ELSE ResolveExisting(el, acc, existingEntries)

PartitionOne(el, acc, existingEntries, state) ==
    IF IsExcluded(el, excludeNames(state)) THEN acc
    ELSE IF el.mergesWith # <<>> THEN MergeBranch(el, acc, existingEntries, state)
    ELSE ResolveExisting(el, acc, existingEntries)

RECURSIVE PartitionFrom(_, _, _, _, _)
PartitionFrom(elements, i, acc, existingEntries, state) ==
    IF i > Len(elements) THEN acc
    ELSE PartitionFrom(elements, i + 1,
                       PartitionOne(elements[i], acc, existingEntries, state),
                       existingEntries, state)

partitionElements(elements, existingEntries, state) ==
    PartitionFrom(elements, 1, EmptyPartition, existingEntries, state)

\* ------------------------------------------------------------------------
\* Entry texts: a text is a sequence of lines; a line records the label it
\* starts with ("" for none), the rest of the line, its number of characters
\* and which of the nine looksLikeCharacterEntry patterns it matches
\* ------------------------------------------------------------------------

Line(label, rest, len, traits) ==
    [label |-> label, rest |-> rest, len |-> len, traits |-> traits]

TemplateText(who) ==
    << Line("Name", who, 6 + Len(who), {}), Line("Age", <<"3", "0">>, 7, {}),
       Line("Gender", <<"f", "e", "m", "a", "l", "e">>, 14, {9}) >>
CharProse(who) == << Line("", who, 48, {1, 3}) >>
PlainProse(who) == << Line("", who, 40, {}) >>

\* ------------------------------------------------------------------------
\* Scan state (the lore state object), as a value
\* ------------------------------------------------------------------------

LoreState(pe, pm, pu, rn, dn, rm) ==
    [pendingEntries |-> pe, pendingMerges |-> pm, pendingUpdates |-> pu,
     rejectedNames |-> rn, dismissedUpdateNames |-> dn,
     rejectedMergeNames |-> rm, dismissedReformatNames |-> <<>>,
     charsSinceLastScan |-> 700]

PendingEntry(displayName, keys, text, category) ==
    [displayName |-> displayName, keys |-> keys, text |-> text,
     category |-> category, confidence |-> 3]

PendingUpdate(entry, category, updatedText, origin) ==
    [displayName |-> entry.displayName, keys |-> entry.keys,
     category |-> category, originalText |-> entry.text,
     updatedText |-> updatedText, origin |-> origin,
     proposedDisplayName |-> <<>>]

PendingMerge(name, category, entry, mergeTarget, proposedKeys, proposedText) ==
    [newName |-> name, newCategory |-> category,
     existingDisplayName |-> IF entry.displayName # <<>>
                             THEN entry.displayName ELSE mergeTarget,
     existingKeys |-> entry.keys, existingText |-> entry.text,
     proposedDisplayName |-> name, proposedKeys |-> proposedKeys,
     proposedText |-> proposedText]

\* ------------------------------------------------------------------------
\* Bounded inputs of partitionElements
\* ------------------------------------------------------------------------

MaxElems == 2

SeqsUpTo(S, n) == UNION {[1..k -> S] : k \in 0..n}

\* the hint Kael resolves in every lorebook that holds an entry, the hint
\* LongB in none
PartElementChoices ==
    {Element(n, "character", h) : n \in {Kael, Mira, Bo, LongA}, h \in {<<>>, Kael}}
        \cup {Element(Mira, "character", LongB)}

EntryKael == Entry(KaelL, <<Bo>>, TemplateText(Kael), "character")
EntryAnon == Entry(<<>>, <<Kaen>>, PlainProse(Kaen), "concept")
EntryMira == Entry(Mira, <<KaelS>>, CharProse(Mira), "character")

PartEntryChoices == { <<>>, <<EntryKael>>, <<EntryAnon, EntryMira>> }

OldMerge ==
    PendingMerge(Bo, "character", EntryKael, KaelL, <<Bo, KaelL>>, EntryKael.text)

PartStateChoices ==
    {LoreState(pe, pm, pu, rn, dn, rm) :
        pe \in {<<>>, <<PendingEntry(Mira, <<LongB>>, CharProse(Mira), "character")>>},
        pm \in {<<>>, <<OldMerge>>},
        pu \in {<<>>, <<PendingUpdate(Entry(KaelS, <<>>, PlainProse(Kael), "character"),
                                     "character", PlainProse(Mira), "content")>>},
        rn \in {<<>>, <<Kaen>>},
        dn \in {<<>>, <<LongA>>},
        rm \in {<<>>, <<Mira \o Arrow \o Kael>>}}

\* ------------------------------------------------------------------------
\* The heap: the state object and its arrays are objects with an identity.
\* heap.objs[r] is a state object whose array fields hold references into
\* heap.arrs; the entries inside the arrays are only ever appended, never
\* written in place, and are kept as values.
\* ------------------------------------------------------------------------

\* the heap holding one state object whose content is the value v
Store(v) ==
    [objs |-> << [pendingEntries |-> 1, pendingMerges |-> 2, pendingUpdates |-> 3,
                  rejectedNames |-> 4, dismissedUpdateNames |-> 5,
                  rejectedMergeNames |-> 6, dismissedReformatNames |-> 7,
                  charsSinceLastScan |-> v.charsSinceLastScan] >>,
     arrs |-> << v.pendingEntries, v.pendingMerges, v.pendingUpdates,
                 v.rejectedNames, v.dismissedUpdateNames,
                 v.rejectedMergeNames, v.dismissedReformatNames >>]

\* the content of the state object r
Deref(h, r) ==
    LET o == h.objs[r]
    IN  [pendingEntries |-> h.arrs[o.pendingEntries],
         pendingMerges |-> h.arrs[o.pendingMerges],
         pendingUpdates |-> h.arrs[o.pendingUpdates],
         rejectedNames |-> h.arrs[o.rejectedNames],
         dismissedUpdateNames |-> h.arrs[o.dismissedUpdateNames],
         rejectedMergeNames |-> h.arrs[o.rejectedMergeNames],
         dismissedReformatNames |-> h.arrs[o.dismissedReformatNames],
         charsSinceLastScan |-> o.charsSinceLastScan]

\* the arrays reachable from the state object r
ArraysOf(h, r) ==
    LET o == h.objs[r]
    IN  {o.pendingEntries, o.pendingMerges, o.pendingUpdates, o.rejectedNames,
         o.dismissedUpdateNames, o.rejectedMergeNames, o.dismissedReformatNames}

AliasInsteadOfClone(h, r) == [heap |-> h, ref |-> r]

ShallowCopy(h, r) ==
    [heap |-> [h EXCEPT !.objs = Append(@, h.objs[r])], ref |-> Len(h.objs) + 1]

\* JSON.parse(JSON.stringify(state)): a new object with new arrays
JsonClone(h, r) ==
    LET o == h.objs[r]
        n == Len(h.arrs)
    IN  [heap |->
           [objs |-> Append(h.objs,
                [pendingEntries |-> n + 1, pendingMerges |-> n + 2,
                 pendingUpdates |-> n + 3, rejectedNames |-> n + 4,
                 dismissedUpdateNames |-> n + 5, rejectedMergeNames |-> n + 6,
                 dismissedReformatNames |-> n + 7,
                 charsSinceLastScan |-> o.charsSinceLastScan]),
            arrs |-> h.arrs \o
                << h.arrs[o.pendingEntries], h.arrs[o.pendingMerges],
                   h.arrs[o.pendingUpdates], h.arrs[o.rejectedNames],
                   h.arrs[o.dismissedUpdateNames], h.arrs[o.rejectedMergeNames],
                   h.arrs[o.dismissedReformatNames] >>],
         ref |-> Len(h.objs) + 1]

\* updatedState.<field>.push(item)
Push(h, r, field, item) ==
    [h EXCEPT !.arrs[h.objs[r][field]] = Append(@, item)]

\* updatedState.charsSinceLastScan = 0
ResetChars(h, r) == [h EXCEPT !.objs[r].charsSinceLastScan = 0]

EmptyState == LoreState(<<>>, <<>>, <<>>, <<>>, <<>>, <<>>)

NoCounters ==
    [generated |-> 0, mergesFound |-> 0, updatesFound |-> 0,
     relationshipUpdatesFound |-> 0, reformatsFound |-> 0, nameProposals |-> 0,
     mergeCount |-> 0]

\* const summary = { generated, mergesFound, ... }
Summary(c) ==
    [generated |-> c.generated, mergesFound |-> c.mergesFound,
     updatesFound |-> c.updatesFound,
     relationshipUpdatesFound |-> c.relationshipUpdatesFound,
     reformatsFound |-> c.reformatsFound, nameProposals |-> c.nameProposals]

NoResult ==
    [returned |-> FALSE, threw |-> FALSE, state |-> 0, error |-> FALSE,
     noResults |-> FALSE, summary |-> Summary(NoCounters), exit |-> "none"]

ScanIdle ==
    /\ storyLen = 0
    /\ settings = [relationshipsOnly |-> FALSE, autoDetectUpdates |-> FALSE,
                   enabledCategories |-> {}]
    /\ lorebook = <<>>
    /\ stateRef = 1
    /\ heap = Store(EmptyState)
    /\ inputSnapshot = [state |-> EmptyState, existingEntries |-> <<>>]
    /\ pc = "idle"
    /\ part = EmptyPartition
    /\ updatedState = 0
    /\ work = <<>>
    /\ loopI = 0
    /\ batch = <<>>
    /\ counters = NoCounters
    /\ olog = {}
    /\ result = NoResult

NotCalled == [called |-> FALSE, newElements |-> <<>>,
              existingElements |-> <<>>, mergeElements |-> <<>>]

NotSeen == [observed |-> FALSE, isHybrid |-> FALSE, providers |-> <<>>]

HybridIdle ==
    /\ hasSecondary = FALSE
    /\ secondaryAlive = FALSE
    /\ failCount = 0
    /\ hcalls = <<>>
    /\ secLog = <<>>
    /\ seen = NotSeen

NoOutput == [called |-> FALSE]

FnIdle ==
    /\ dismissedCleanupIds = {}
    /\ fnCall = [fn |-> "none"]
    /\ fnOut = NoOutput

PartIdle ==
    /\ pElements = <<>>
    /\ pEntries = <<>>
    /\ pState = LoreState(<<>>, <<>>, <<>>, <<>>, <<>>, <<>>)
    /\ pResult = NotCalled

InitPartition ==
    /\ mode = "partition"
    /\ pElements \in SeqsUpTo(PartElementChoices, MaxElems)
    /\ pEntries \in PartEntryChoices
    /\ pState \in PartStateChoices
    /\ pResult = NotCalled
    /\ HybridIdle
    /\ ScanIdle
    /\ FnIdle

\* const r = partitionElements(elements, existingEntries, state)
CallPartition ==
    /\ mode = "partition"
    /\ ~pResult.called
    /\ pResult' = [called |-> TRUE] @@ partitionElements(pElements, pEntries, pState)
    /\ UNCHANGED <<mode, pElements, pEntries, pState>>
    /\ UNCHANGED hybridVars
    /\ UNCHANGED scanVars
    /\ UNCHANGED fnVars

NextPartition == CallPartition

SpecPartition == InitPartition /\ [][NextPartition]_vars

\* ---- C9 ----------------------------------------------------------------

Count(seq, name) == Cardinality({i \in 1..Len(seq) : seq[i].name = name})

excludedCount ==
    Cardinality({i \in 1..Len(pElements) :
                    IsExcluded(pElements[i], excludeNames(pState))})

\* C9: partitionElements never double-counts: the lengths of newElements,
\* existingElements and mergeElements plus the number of excluded elements
\* equal the number of input elements, and every name occurs in the three
\* lists together exactly as often as it occurs among the elements that are
\* not excluded.
C9_NoDoubleCount ==
    pResult.called =>
        /\ Len(pResult.newElements) + Len(pResult.existingElements)
             + Len(pResult.mergeElements) + excludedCount = Len(pElements)
        /\ \A el \in Range(pElements) :
              Count(pResult.newElements, el.name)
                + Count(pResult.existingElements, el.name)
                + Count(pResult.mergeElements, el.name)
              = IF IsExcluded(el, excludeNames(pState)) THEN 0
                ELSE Count(pElements, el.name)

\* a call on two elements that sorts one as new after a rejected merge pair,
\* one as a merge candidate, and has skipped none
C9_Witness ==
    /\ pResult.called
    /\ Len(pElements) = 2
    /\ pElements[1].mergesWith # <<>>
    /\ (toLowerCase(pElements[1].name) \o Arrow \o toLowerCase(pElements[1].mergesWith))
          \in rejectedMergePairs(pState)
    /\ Len(pResult.newElements) = 1
    /\ Len(pResult.mergeElements) = 1

\* ---- C10 ---------------------------------------------------------------

\* the strings the exclusion set is built from, as the state holds them
ExclusionSources(state) ==
    UNION {{x.displayName} \cup Range(x.keys) :
              x \in Range(state.pendingEntries) \cup Range(state.pendingUpdates)}
        \cup {m.proposedDisplayName : m \in Range(state.pendingMerges)}
        \cup Range(state.rejectedNames)
        \cup Range(state.dismissedUpdateNames)

MatchesSource(name, src) ==
    \/ toLowerCase(name) = toLowerCase(src)
    \/ fuzzyNameScore(name, src) >= FuzzyThreshold

InNoList(name) ==
    /\ Count(pResult.newElements, name) = 0
    /\ Count(pResult.existingElements, name) = 0
    /\ Count(pResult.mergeElements, name) = 0

\* C10: an element whose name matches (case-folded exactly, or with fuzzy
\* score >= 0.7) a pending entry's name or key, a pending update's name or
\* key, a pending merge's proposed name, a rejected name or a dismissed
\* update name is in none of the three returned lists, with or without a
\* merge hint.
C10_ExcludedInNoList ==
    pResult.called =>
        \A el \in Range(pElements) :
            (\E src \in ExclusionSources(pState) : MatchesSource(el.name, src))
                => InNoList(el.name)

\* an element with a merge hint that resolves, excluded only by a fuzzy match,
\* next to an element that was kept
C10_Witness ==
    /\ pResult.called
    /\ Len(pElements) = 2
    /\ pElements[1].mergesWith # <<>>
    /\ ResolveEntry(pElements[1].mergesWith, pEntries) # 0
    /\ toLowerCase(pElements[1].name) \notin excludeNames(pState)
    /\ \E src \in ExclusionSources(pState) : MatchesSource(pElements[1].name, src)
    /\ InNoList(pElements[1].name)
    /\ ~InNoList(pElements[2].name)

\* ------------------------------------------------------------------------
\* createHybridProviders
\* ------------------------------------------------------------------------

DisableAfter == 2

\* createHybridProviders(primaryFn, secondaryFn): the closure's initial state
CreateHybrid(secondaryFn) ==
    [secondaryAlive |-> secondaryFn, failCount |-> 0]

EntryIgnoringAlive(alive) == "secondaryFn"

\* wrappedSecondary, on entry: the function the call is handed to
wrappedSecondaryEntry(alive) == IF ~alive THEN "primaryFn" ELSE "secondaryFn"

ReturnResettingCount(fc) == 0

\* wrappedSecondary when secondaryFn resolves: failCount as it leaves it
SecondaryReturn(fc) == fc

\* wrappedSecondary's catch block: failCount++ and the disabling test
SecondaryCatch(alive, fc) ==
    [failCount |-> fc + 1,
     secondaryAlive |-> IF fc + 1 >= DisableAfter THEN FALSE ELSE alive]

RetryWithDefaultOptions(messages, options) == <<messages, "default">>

\* the arguments of the retry: primaryFn(messages, options)
RetryArgs(messages, options) == <<messages, options>>

ProvidersIgnoringAlive(alive) == <<"primaryFn", "wrappedSecondary">>

\* hybrid.getProviders()
getProviders(alive) ==
    IF alive THEN <<"primaryFn", "wrappedSecondary">> ELSE <<"primaryFn">>

isHybrid(alive) == alive

\* ------------------------------------------------------------------------
\* The wrapper driven by an arbitrary caller
\* ------------------------------------------------------------------------

MaxCalls == 3

\* the (messages, options) pairs a caller passes
CallArgs == { <<"m1", "o1">>, <<"m2", "o2">> }
Pending == [by |-> "none", kind |-> "none"]

InitHybrid ==
    /\ mode = "hybrid"
    /\ hasSecondary \in BOOLEAN
    /\ secondaryAlive = CreateHybrid(hasSecondary).secondaryAlive
    /\ failCount = CreateHybrid(hasSecondary).failCount
    /\ hcalls = <<>>
    /\ secLog = <<>>
    /\ seen = NotSeen
    /\ PartIdle
    /\ FnIdle
    /\ ScanIdle

\* wrappedSecondary(messages, options) is called
HCall ==
    /\ mode = "hybrid"
    /\ Len(hcalls) < MaxCalls
    /\ \E args \in CallArgs :
         LET fn == wrappedSecondaryEntry(secondaryAlive)
             m == args[1]
             o == args[2]
         IN  hcalls' = Append(hcalls,
                [msg |-> m, opts |-> o,
                 stage |-> fn,
                 aliveAtCall |-> secondaryAlive,
                 secArgs |-> IF fn = "secondaryFn" THEN << <<m, o>> >> ELSE <<>>,
                 priArgs |-> IF fn = "primaryFn" THEN << <<m, o>> >> ELSE <<>>,
                 secFailed |-> FALSE,
                 received |-> Pending])
    /\ UNCHANGED <<mode, hasSecondary, secondaryAlive, failCount, secLog, seen>>
    /\ UNCHANGED partVars
    /\ UNCHANGED scanVars
    /\ UNCHANGED fnVars

\* secondaryFn resolves: the await returns its value to the caller
HSecondaryResolves ==
    /\ mode = "hybrid"
    /\ \E i \in 1..Len(hcalls) :
         /\ hcalls[i].stage = "secondaryFn"
         /\ hcalls' = [hcalls EXCEPT ![i].stage = "returned",
                                     ![i].received = [by |-> "secondaryFn", kind |-> "ok"]]
    /\ failCount' = SecondaryReturn(failCount)
    /\ secLog' = Append(secLog, "ok")
    /\ UNCHANGED <<mode, hasSecondary, secondaryAlive, seen>>
    /\ UNCHANGED partVars
    /\ UNCHANGED scanVars
    /\ UNCHANGED fnVars

\* secondaryFn throws or rejects: the catch block runs and calls primaryFn
HSecondaryThrows ==
    /\ mode = "hybrid"
    /\ \E i \in 1..Len(hcalls) :
         /\ hcalls[i].stage = "secondaryFn"
         /\ hcalls' = [hcalls EXCEPT ![i].stage = "primaryFn",
                                     ![i].secFailed = TRUE,
                                     ![i].priArgs = Append(@, RetryArgs(hcalls[i].msg, hcalls[i].opts))]
    /\ failCount' = SecondaryCatch(secondaryAlive, failCount).failCount
    /\ secondaryAlive' = SecondaryCatch(secondaryAlive, failCount).secondaryAlive
    /\ secLog' = Append(secLog, "fail")
    /\ UNCHANGED <<mode, hasSecondary, seen>>
    /\ UNCHANGED partVars
    /\ UNCHANGED scanVars
    /\ UNCHANGED fnVars

\* primaryFn settles: the wrapper's promise takes its outcome
HPrimarySettles ==
    /\ mode = "hybrid"
    /\ \E i \in 1..Len(hcalls), kind \in {"ok", "throw"} :
         /\ hcalls[i].stage = "primaryFn"
         /\ hcalls' = [hcalls EXCEPT ![i].stage = "returned",
                                     ![i].received = [by |-> "primaryFn", kind |-> kind]]
    /\ UNCHANGED <<mode, hasSecondary, secondaryAlive, failCount, secLog, seen>>
    /\ UNCHANGED partVars
    /\ UNCHANGED scanVars
    /\ UNCHANGED fnVars

\* the caller asks isHybrid() and getProviders()
HObserve ==
    /\ mode = "hybrid"
    /\ seen' = [observed |-> TRUE, isHybrid |-> isHybrid(secondaryAlive),
                providers |-> getProviders(secondaryAlive)]
    /\ seen' # seen
    /\ UNCHANGED <<mode, hasSecondary, secondaryAlive, failCount, hcalls, secLog>>
    /\ UNCHANGED partVars
    /\ UNCHANGED scanVars
    /\ UNCHANGED fnVars

NextHybrid ==
    \/ HCall
    \/ HSecondaryResolves
    \/ HSecondaryThrows
    \/ HPrimarySettles
    \/ HObserve

SpecHybrid == InitHybrid /\ [][NextHybrid]_vars

\* ---- C3 ----------------------------------------------------------------

FailsIn(log) == Cardinality({i \in 1..Len(log) : log[i] = "fail"})

TwoInARow(log) ==
    \E i \in 1..(Len(log) - 1) : log[i] = "fail" /\ log[i + 1] = "fail"

\* C3 as claimed: the secondary is disabled exactly when secondaryFn has
\* failed on two consecutive calls.
C3_AsClaimed ==
    hasSecondary => (~secondaryAlive <=> TwoInARow(secLog))

\* C3: the wrapper is primary-only exactly when secondaryFn has failed twice
\* in all since the wrapper was created, whether or not a successful
\* secondary call came between the two failures; one failure never disables.
C3_DisabledAfterTwoFailures ==
    secondaryAlive <=> (hasSecondary /\ FailsIn(secLog) < DisableAfter)

\* two failures separated by a success have disabled the secondary
C3_Witness ==
    /\ secLog = <<"fail", "ok", "fail">>
    /\ hasSecondary
    /\ ~secondaryAlive

\* ---- C4 ----------------------------------------------------------------

SecInvocations ==
    LET n[i \in 0..Len(hcalls)] ==
            IF i = 0 THEN 0 ELSE n[i - 1] + Len(hcalls[i].secArgs)
    IN  n[Len(hcalls)]

\* C4: once the secondary is disabled (or isHybrid() has returned false) it
\* stays disabled: secondaryAlive stays false, secondaryFn is not invoked
\* again, and every later isHybrid()/getProviders() answers false and
\* [primaryFn].
C4_StaysDisabled ==
    [][ (~secondaryAlive \/ (seen.observed /\ ~seen.isHybrid))
          => /\ ~secondaryAlive'
             /\ SecInvocations' = SecInvocations
             /\ (seen' # seen => /\ seen'.isHybrid = FALSE
                                 /\ seen'.providers = <<"primaryFn">>) ]_vars

\* after the disabling, a later call has been served and the caller has seen
\* isHybrid() false
C4_Witness ==
    /\ hasSecondary
    /\ ~secondaryAlive
    /\ seen.observed /\ ~seen.isHybrid
    /\ \E i \in 1..Len(hcalls) :
          ~hcalls[i].aliveAtCall /\ hcalls[i].stage = "returned"

\* ---- C5 ----------------------------------------------------------------

\* C5: a wrappedSecondary call whose secondaryFn throws is retried exactly
\* once on primaryFn with the same messages and options and the caller gets
\* primaryFn's outcome; a call made after the disabling goes to primaryFn
\* alone.
C5_RetryOnPrimary ==
    \A i \in 1..Len(hcalls) :
        LET c == hcalls[i]
        IN  /\ c.secFailed =>
                /\ Len(c.secArgs) = 1
                /\ c.priArgs = << <<c.msg, c.opts>> >>
                /\ c.stage \in {"primaryFn", "returned"}
                /\ c.stage = "primaryFn" => c.received = Pending
                /\ c.stage = "returned" => c.received.by = "primaryFn"
            /\ ~c.aliveAtCall =>
                /\ c.secArgs = <<>>
                /\ c.priArgs = << <<c.msg, c.opts>> >>
                /\ c.stage = "returned" => c.received.by = "primaryFn"

\* a retried call whose primary retry threw to the caller, and a call made
\* after the disabling that primaryFn answered
C5_Witness ==
    \E i, j \in 1..Len(hcalls) :
        /\ hcalls[i].secFailed
        /\ hcalls[i].stage = "returned"
        /\ hcalls[i].received = [by |-> "primaryFn", kind |-> "throw"]
        /\ hasSecondary
        /\ ~hcalls[j].aliveAtCall
        /\ hcalls[j].received = [by |-> "primaryFn", kind |-> "ok"]

\* ------------------------------------------------------------------------
\* Text predicates
\* ------------------------------------------------------------------------

TemplateLabels ==
    {"Name", "Age", "Relationships", "Physical Appearance", "Sexuality",
     "Gender", "Description", "Self-Image", "Motivations/Goals", "Secrets",
     "Background", "Family", "Additional notes"}

MinTemplateFields == 3
MinCharacterPatterns == 2

\* the nine patterns of looksLikeCharacterEntry, by their position
CharacterPatterns == 1..9
MinEntryText == 30

\* text.length: the lines and the newlines between them
TextLength(text) ==
    LET n[i \in 0..Len(text)] == IF i = 0 THEN 0 ELSE n[i - 1] + text[i].len
    IN  IF text = <<>> THEN 0 ELSE n[Len(text)] + Len(text) - 1

isCharacterEntryFormatted(text) ==
    IF text = <<>> THEN TRUE
    ELSE Cardinality({l.label : l \in Range(text)} \cap TemplateLabels)
            >= MinTemplateFields

looksLikeCharacterEntry(text) ==
    IF text = <<>> \/ TextLength(text) < MinEntryText THEN FALSE
    ELSE Cardinality((UNION {l.traits : l \in Range(text)}) \cap CharacterPatterns)
            >= MinCharacterPatterns

\* e.text && e.text.length > 30
HasText(e) == e.text # <<>> /\ TextLength(e.text) > MinEntryText

\* ------------------------------------------------------------------------
\* LLM task functions, as functions of the oracle's reply.  A reply is
\* "ok" (output that parses to the expected shape), "malformed" (any other
\* output) or "throw".  Each returns [threw, val]: val is what the function
\* returns, threw says that it rejected instead.
\* ------------------------------------------------------------------------

MAX_ELEMENTS_PER_SCAN == 5
MAX_UPDATES_PER_SCAN == 3
MaxKeys == 6

Returned(v) == [threw |-> FALSE, val |-> v]
Threw(v) == [threw |-> TRUE, val |-> v]

Take(seq, n) == SubSeq(seq, 1, Min2(n, Len(seq)))

ALL_CATEGORIES == {"character", "location", "item", "faction", "concept"}

\* null as an item of the elements array: reading its name throws a
\* TypeError inside the filter, which the catch block turns into []
NullElement == Element(<<>>, "null", <<>>)

identifyWithoutCatch(enabledCats, reply) ==
    IF reply.kind = "throw" THEN Threw(<<>>)
    ELSE IF reply.kind = "ok" THEN Returned(reply.elements) ELSE Returned(<<>>)

\* identifyLoreElements once the oracle has replied: the filtered elements,
\* [] on any failure
identifyLoreElements(enabledCats, reply) ==
    IF reply.kind = "ok" /\ NullElement \notin Range(reply.elements)
    THEN Returned(Take(SelectSeq(reply.elements,
                                 LAMBDA el : el.name # <<>>
                                             /\ el.category \in enabledCats),
                       MAX_ELEMENTS_PER_SCAN))
    ELSE Returned(<<>>)

NullEntry == PendingEntry(<<>>, <<>>, <<>>, "null")

MinConfidence == 1
MaxConfidence == 5
DefaultConfidence == 3

generateFallbackEntry(name, category, reply) ==
    Returned([displayName |-> name, keys |-> <<name>>,
              text |-> IF reply.kind = "ok" THEN reply.text ELSE PlainProse(name),
              category |-> category, confidence |-> DefaultConfidence])

\* parsed.keys.filter(k => typeof k === 'string'): an item of the parsed
\* array is [isString, value]
StringsOf(items) ==
    LET kept == SelectSeq(items, LAMBDA k : k.isString)
    IN  [i \in 1..Len(kept) |-> kept[i].value]

\* generateLoreEntryFromElement: the drafted entry, NullEntry for null.
\* An "ok" reply is parsed JSON whose displayName is a string.
generateLoreEntryFromElement(name, category, reply) ==
    IF reply.kind = "ok"
    THEN Returned([displayName |-> IF reply.displayName # <<>>
                                   THEN reply.displayName ELSE name,
                   keys |-> IF reply.keysIsArray
                            THEN Take(StringsOf(reply.keys), MaxKeys) ELSE <<name>>,
                   text |-> IF reply.textIsString THEN reply.text ELSE <<>>,
                   category |-> category,
                   confidence |-> IF reply.confidenceIsNumber
                                  THEN Min2(MaxConfidence,
                                            IF reply.confidence < MinConfidence
                                            THEN MinConfidence
                                            ELSE reply.confidence)
                                  ELSE DefaultConfidence])
    ELSE Returned(NullEntry)

\* detectEntryUpdate: the updated text, <<>> for null
detectEntryUpdate(reply) ==
    IF reply.kind = "ok" /\ ~reply.noUpdate /\ reply.updatedText # <<>>
    THEN Returned(reply.updatedText)
    ELSE Returned(<<>>)

\* .catch(err => null) on a task's promise
CatchToNull(r, null) == IF r.threw THEN null ELSE r.val

\* ------------------------------------------------------------------------
\* Merged keys of a PendingMerge
\* ------------------------------------------------------------------------

RECURSIVE Dedup(_, _)
Dedup(seq, seenSoFar) ==
    IF seq = <<>> THEN <<>>
    ELSE IF Head(seq) \in seenSoFar THEN Dedup(Tail(seq), seenSoFar)
    ELSE <<Head(seq)>> \o Dedup(Tail(seq), seenSoFar \cup {Head(seq)})

\* new Set(keys lower-cased) plus the display name plus the new name, in
\* insertion order
mergedKeysSet(entry, name) ==
    Dedup([i \in 1..Len(entry.keys) |-> toLowerCase(entry.keys[i])]
            \o (IF entry.displayName # <<>>
                THEN <<toLowerCase(entry.displayName)>> ELSE <<>>)
            \o <<toLowerCase(name)>>, {})

\* (entry.keys || []).find(ek => ek.toLowerCase() === k), <<>> for undefined
FindOriginal(keys, k) ==
    LET hits == SelectSeq(keys, LAMBDA ek : toLowerCase(ek) = k)
    IN  IF hits = <<>> THEN <<>> ELSE Head(hits)

\* the keys as the Set holds them, lower-cased
mergedKeysFolded(entry, name) == Take(mergedKeysSet(entry, name), MaxKeys)

mergedKeysUncapped(entry, name) ==
    LET set == mergedKeysSet(entry, name)
    IN  [i \in 1..Len(set) |->
            IF set[i] = toLowerCase(name) THEN name
            ELSE IF FindOriginal(entry.keys, set[i]) # <<>>
            THEN FindOriginal(entry.keys, set[i])
            ELSE IF set[i] = toLowerCase(entry.displayName)
            THEN entry.displayName ELSE set[i]]

mergedKeys(entry, name) ==
    LET set == mergedKeysSet(entry, name)
        cased == [i \in 1..Len(set) |->
                    LET k == set[i]
                        original == FindOriginal(entry.keys, k)
                    IN  IF k = toLowerCase(name) THEN name
                        ELSE IF original # <<>> THEN original
                        ELSE IF k = toLowerCase(entry.displayName)
                        THEN entry.displayName ELSE k]
    IN  Take(cased, MaxKeys)

\* ------------------------------------------------------------------------
\* Relationship fields, reformatting and family names
\* ------------------------------------------------------------------------

BlankLine == Line("", <<>>, 0, {})

IsItemOrBlank(l) == l.label = "-" \/ (l.label = "" /\ l.len = 0)

\* index of the first line that starts with one of the labels, 0 if none
FirstIndex(text, labels) ==
    LET hits == {i \in 1..Len(text) : text[i].label \in labels}
    IN  IF hits = {} THEN 0 ELSE CHOOSE i \in hits : \A j \in hits : i <= j

\* last line of the block that starts at line i: the label line and the
\* "- " lines and blank lines that follow it
RECURSIVE BlockEnd(_, _)
BlockEnd(text, i) ==
    IF i < Len(text) /\ IsItemOrBlank(text[i + 1]) THEN BlockEnd(text, i + 1) ELSE i

RECURSIVE TrimEndLines(_)
TrimEndLines(text) ==
    IF text # <<>> /\ text[Len(text)] = BlankLine
    THEN TrimEndLines(SubSeq(text, 1, Len(text) - 1)) ELSE text

RECURSIVE TrimStartLines(_)
TrimStartLines(text) ==
    IF text # <<>> /\ Head(text) = BlankLine THEN TrimStartLines(Tail(text)) ELSE text

\* the characters of a line; the label counts as one character
LineChars(l) ==
    IF l.label = "" THEN l.rest
    ELSE IF l.label = "-" THEN <<"-", " ">> \o l.rest
    ELSE <<l.label, ":", " ">> \o l.rest

\* l.startsWith('-') ? l : `- ${l}`, for a trimmed line of the update.  A
\* line that starts with a dash and no space after it stays as it is, and is
\* no "- " line when the text is read again.
PrefixItem(l) ==
    IF l.label = "-" \/ (l.label = "" /\ l.rest # <<>> /\ Head(l.rest) = "-") THEN l
    ELSE Line("-", LineChars(l), l.len + 2, l.traits)

\* `${label}:\n${block}`: the label line and the lines of the update
\* (already split and trimmed) that are not empty, each made a "- " line; an
\* update with no such line leaves an empty line after the label
FieldBlock(label, update) ==
    LET kept == SelectSeq(update, LAMBDA l : l # BlankLine)
    IN  <<Line(label, <<>>, Len(label) + 1, {})>>
            \o (IF kept = <<>> THEN <<BlankLine>>
                 ELSE [i \in 1..Len(kept) |-> PrefixItem(kept[i])])

\* one field of spliceRelationshipFields: replace the block, or insert it
\* before the first of the later fields, or append it
SpliceField(text, label, items, later) ==
    LET block == FieldBlock(label, items)
        at == FirstIndex(text, {label})
        ip == FirstIndex(text, later)
    IN  IF at # 0
        THEN SubSeq(text, 1, at - 1) \o block
                \o SubSeq(text, BlockEnd(text, at) + 1, Len(text))
        ELSE IF ip # 0
        THEN SubSeq(text, 1, ip - 1) \o block \o <<BlankLine>>
                \o SubSeq(text, ip, Len(text))
        ELSE (IF TrimEndLines(text) = <<>> THEN <<BlankLine>> ELSE TrimEndLines(text))
                \o <<BlankLine>> \o block

spliceRelationshipFields(currentText, updates) ==
    LET t1 == IF updates.relationships # <<>>
              THEN SpliceField(currentText, "Relationships", updates.relationships,
                               {"Family", "Background", "Additional notes"})
              ELSE currentText
    IN  IF updates.family # <<>>
        THEN SpliceField(t1, "Family", updates.family,
                         {"Background", "Additional notes"})
        ELSE t1

NoUpdate == [noUpdate |-> TRUE, family |-> <<>>, relationships |-> <<>>]

\* updateRelationshipFields: {family, relationships} or {noUpdate: true}
updateRelationshipFields(reply) ==
    IF reply.kind = "ok" /\ ~reply.noUpdate
          /\ (reply.family # <<>> \/ reply.relationships # <<>>)
    THEN Returned([noUpdate |-> FALSE, family |-> reply.family,
                   relationships |-> reply.relationships])
    ELSE Returned(NoUpdate)

\* enrichAndReformatEntry: the trimmed output, <<>> for null
enrichAndReformatEntry(reply) ==
    IF reply.kind = "ok"
    THEN Returned(TrimStartLines(TrimEndLines(reply.text))) ELSE Returned(<<>>)

\* the "- " lines that continue the field whose label line is line i
RECURSIVE Continuation(_, _)
Continuation(text, i) ==
    IF i >= Len(text) THEN <<>>
    ELSE LET l == text[i + 1]
         IN  IF l.label = "-"
             THEN <<"\n", "-", " ">> \o l.rest \o Continuation(text, i + 1)
             ELSE IF l.label = "" /\ l.len = 0 THEN Continuation(text, i + 1)
             ELSE <<>>

\* the first line from line i on that is not blank, 0 if there is none
RECURSIVE NextNonBlank(_, _)
NextNonBlank(text, i) ==
    IF i > Len(text) THEN 0
    ELSE IF text[i] = BlankLine THEN NextNonBlank(text, i + 1) ELSE i

\* extractField(text, fieldName), as a string.  The \s* after the colon runs
\* over line breaks, so a field with nothing on its own line captures the
\* next line that is not blank.
extractField(text, fieldName) ==
    LET at == FirstIndex(text, {fieldName})
    IN  IF at = 0 THEN <<>>
        ELSE LET rest == NextNonBlank(text, at + 1)
                 firstLine == IF trim(text[at].rest) # <<>> \/ rest = 0
                              THEN trim(text[at].rest)
                              ELSE trim(LineChars(text[rest]))
                 cont == Continuation(text, at)
             IN  IF cont # <<>>
                 THEN (IF firstLine # <<>> THEN firstLine \o cont ELSE Tail(cont))
                 ELSE firstLine

\* s.trim().split(/\s+/).length
RECURSIVE Words(_, _)
Words(s, inWord) ==
    IF s = <<>> THEN 0
    ELSE IF Head(s) = " " THEN Words(Tail(s), FALSE)
    ELSE (IF inWord THEN 0 ELSE 1) + Words(Tail(s), TRUE)

NumParts(s) == IF trim(s) = <<>> THEN 1 ELSE Words(trim(s), FALSE)

startsWith(s, prefix) ==
    Len(prefix) <= Len(s) /\ SubSeq(s, 1, Len(prefix)) = prefix

ValidWithoutPrefixTest(p) ==
    /\ p.currentIsString /\ p.proposedIsString
    /\ p.currentName # p.proposedName
    /\ ~(NumParts(p.currentName) > 1)
    /\ ~(NumParts(p.proposedName) <= NumParts(p.currentName))

\* the filter of propagateFamilyNames
ValidProposal(p) ==
    /\ p.currentIsString /\ p.proposedIsString
    /\ p.currentName # p.proposedName
    /\ ~(NumParts(p.currentName) > 1)
    /\ ~(NumParts(p.proposedName) <= NumParts(p.currentName))
    /\ startsWith(toLowerCase(trim(p.proposedName)), toLowerCase(trim(p.currentName)))

\* propagateFamilyNames: the validated proposals, [] on any failure
\* reading p.currentName of a null or undefined item throws a TypeError
\* inside the filter; the catch block turns it into []
FilterThrows(proposals) == \E i \in 1..Len(proposals) : ~proposals[i].isObject

propagateFamilyNames(reply) ==
    IF reply.kind = "ok" /\ ~FilterThrows(reply.proposals)
    THEN Returned(SelectSeq(reply.proposals, ValidProposal))
    ELSE Returned(<<>>)

\* text.replace(/^Name:\s*.*/m, "Name: " + proposedName): \s* runs over the
\* line break when nothing follows "Name:" on its line
ReplaceNameLine(text, proposedName) ==
    LET at == FirstIndex(text, {"Name"})
        named == Line("Name", proposedName, 6 + Len(proposedName), {})
        next == NextNonBlank(text, at + 1)
    IN  IF at = 0 THEN text
        ELSE IF trim(text[at].rest) # <<>> THEN [text EXCEPT ![at] = named]
        ELSE IF next = 0 THEN SubSeq(text, 1, at - 1) \o <<named>>
        ELSE SubSeq(text, 1, at - 1) \o <<named>> \o SubSeq(text, next + 1, Len(text))

\* ------------------------------------------------------------------------
\* Inputs of one scanForLore call and the oracle's possible replies
\* ------------------------------------------------------------------------

MinStoryChars == 100
MAX_RELATIONSHIP_UPDATES == 3
MaxIdentified == 4

Tess == <<"T", "e", "s", "s">>
Rook == <<"R", "o", "o", "k">>
MiraStone == Mira \o <<" ", "S", "t", "o", "n", "e">>

BookKael == Entry(Kael, <<Kael>>, TemplateText(Kael), "character")
BookMira == Entry(Mira, <<Mira>>, CharProse(Mira), "character")
BookTess == Entry(Tess, <<>>, CharProse(Tess), "concept")

ScanEntryChoices == { <<>>, <<BookKael, BookMira, BookTess>> }

ScanStateChoices ==
    { EmptyState,
      LoreState(<<PendingEntry(Bo, <<Bo>>, PlainProse(Bo), "character")>>, <<>>,
                <<PendingUpdate(BookKael, "character", PlainProse(Kael), "content")>>,
                <<>>, <<>>, <<>>) }

\* what the identify pass can name, in story order
ElementPool ==
    << Element(Bo, "character", <<>>), Element(LongA, "location", <<>>),
       Element(Kael, "character", <<>>), Element(Mira, "character", <<>>),
       Element(Rook, "character", Mira) >>

RECURSIVE PickFrom(_, _, _)
PickFrom(pool, S, i) ==
    IF i > Len(pool) THEN <<>>
    ELSE (IF i \in S THEN <<pool[i]>> ELSE <<>>) \o PickFrom(pool, S, i + 1)

ElementLists ==
    {PickFrom(ElementPool, S, 1) :
        S \in {T \in SUBSET (1..Len(ElementPool)) : Cardinality(T) <= MaxIdentified}}

IdentifyReplies ==
    {[kind |-> "ok", elements |-> l] : l \in ElementLists}
        \cup {[kind |-> k, elements |-> <<>>] : k \in {"malformed", "throw"}}

\* Three more families of scans: "busy", a lorebook of places with several
\* merge hints in one reply, "cast", a lorebook of formatted characters, and
\* "prose", a lorebook of character entries that are not formatted; and
\* "crowd", the same lorebook and a reply that names four new elements
ScanModes == {"scan", "busy", "cast", "prose", "crowd"}

Ivy == <<"I", "v", "y">>
Hex == <<"H", "e", "x">>
Rep(ch) == <<ch, ch, ch>>
HexKeys == <<Rep("q"), Rep("w"), Rep("z"), Rep("j"), Rep("u"), Rep("p")>>

PlaceMira == Entry(Mira, <<Mira>>, PlainProse(Mira), "location")
PlaceHex  == Entry(Hex, HexKeys, PlainProse(Hex), "location")
PlaceKael == Entry(Kael, <<>>, PlainProse(Kael), "location")
PlaceTess == Entry(Tess, <<Tess>>, PlainProse(Tess), "location")

BusyBook == <<PlaceMira, PlaceHex, PlaceKael, PlaceTess>>

BusyPool ==
    << Element(Rook, "location", Mira), Element(Bo, "item", Mira),
       Element(LongA, "location", Hex), Element(Ivy, "item", Kael),
       Element(Kael, "location", <<>>), Element(Tess, "location", <<>>),
       Element(toLowerCase(Mira), "item", Mira) >>

BusyStateChoices ==
    { EmptyState,
      LoreState(<<>>,
                <<PendingMerge(Ivy, "item", PlaceMira, Mira, <<Mira, Ivy>>,
                               PlaceMira.text)>>,
                <<>>, <<>>, <<>>, <<>>) }

CastMember(who) == Entry(who, <<who>>, TemplateText(who), "character")

CastBook == <<CastMember(Kael), CastMember(Mira), CastMember(Tess), CastMember(Rook)>>

CastPool ==
    << Element(Bo, "character", <<>>), Element(Kael, "character", <<>>),
       Element(Ivy, "character", Tess), Element(KaelL, "character", <<>>) >>

CastStateChoices ==
    { EmptyState,
      LoreState(<<>>, <<>>,
                <<PendingUpdate(CastMember(Mira), "character", PlainProse(Mira),
                                "content")>>,
                <<>>, <<>>, <<>>) }

\* a lorebook of five character entries written as prose
ProseMember(who) == Entry(who, <<who>>, CharProse(who), "character")

\* the same with a Name field that was left blank above the prose
BlankNamed(who) ==
    Entry(who, <<who>>, <<Line("Name", <<>>, 5, {})>> \o CharProse(who), "character")

ProseBook ==
    <<ProseMember(Kael), BlankNamed(Mira), ProseMember(Tess), ProseMember(Rook),
      ProseMember(Hex)>>

ProsePool == << Element(Ivy, "character", Mira), Element(Bo, "item", <<>>) >>

ProseStateChoices ==
    { EmptyState, [EmptyState EXCEPT !.dismissedReformatNames = <<toLowerCase(Kael)>>] }

\* four new elements, none of them a character
CrowdList ==
    << Element(Bo, "item", <<>>), Element(Ivy, "location", <<>>),
       Element(LongA, "location", <<>>), Element(LongB, "faction", <<>>) >>

AllLists(pool) == {PickFrom(pool, S, 1) : S \in SUBSET (1..Len(pool))}

\* the replies the identify call can get in each family of scans
IdentifyRepliesIn(m) ==
    IF m = "busy" THEN {[kind |-> "ok", elements |-> l] : l \in AllLists(BusyPool)}
    ELSE IF m = "cast"
    THEN {[kind |-> "ok", elements |-> l] : l \in AllLists(CastPool)}
    ELSE IF m = "prose"
    THEN {[kind |-> "ok", elements |-> l] : l \in AllLists(ProsePool)}
    ELSE IF m = "crowd" THEN {[kind |-> "ok", elements |-> CrowdList]}
    ELSE IdentifyReplies

KeyItem(key) == [isString |-> TRUE, value |-> key]
NotAString == [isString |-> FALSE, value |-> <<>>]

GenerateReply(kind, text) ==
    [kind |-> kind, displayName |-> <<>>, keysIsArray |-> FALSE, keys |-> <<>>,
     textIsString |-> text # <<>>, text |-> text,
     confidenceIsNumber |-> FALSE, confidence |-> 0]

\* a draft under a display name and a key of the oracle's own choosing
Renamed(reply, displayName) ==
    [reply EXCEPT !.displayName = displayName, !.keysIsArray = TRUE,
                  !.keys = <<KeyItem(displayName)>>]

GenerateReplies(elem) ==
    {GenerateReply("ok", PlainProse(elem.name)), GenerateReply("ok", <<>>),
     GenerateReply("malformed", <<>>), GenerateReply("throw", <<>>),
     Renamed(GenerateReply("ok", PlainProse(elem.name)), LongB)}

\* a draft with keys and a confidence of the oracle's choosing
Keyed(reply, keys, confidence) ==
    [reply EXCEPT !.keysIsArray = TRUE, !.keys = keys,
                  !.confidenceIsNumber = TRUE, !.confidence = confidence]

\* drafts whose keys repeat, are too many or are not strings, and whose
\* confidence is out of range
DraftReplies(elem) ==
    {Keyed(GenerateReply("ok", PlainProse(elem.name)),
           <<KeyItem(elem.name), KeyItem(elem.name)>>, 0),
     Keyed(GenerateReply("ok", PlainProse(elem.name)),
           <<NotAString>> \o [i \in 1..MaxKeys |-> KeyItem(HexKeys[i])]
               \o <<KeyItem(elem.name)>>, 9),
     Keyed(GenerateReply("ok", PlainProse(elem.name)), <<>>, 4),
     Keyed(GenerateReply("ok", <<>>), <<KeyItem(elem.name)>>, 2)}

Revised(text) == text \o <<Line("", <<"+">>, 20, {})>>

UpdateReplies(entry) ==
    {[kind |-> "ok", noUpdate |-> FALSE, updatedText |-> Revised(entry.text)],
     [kind |-> "ok", noUpdate |-> TRUE, updatedText |-> <<>>],
     [kind |-> "malformed", noUpdate |-> FALSE, updatedText |-> <<>>],
     [kind |-> "throw", noUpdate |-> FALSE, updatedText |-> <<>>]}

RelReply(kind, noUpdate, relationships) ==
    [kind |-> kind, noUpdate |-> noUpdate, family |-> <<>>,
     relationships |-> relationships]

RelReplies ==
    {RelReply("ok", FALSE, <<Line("-", Mira, 6, {})>>), RelReply("ok", TRUE, <<>>),
     RelReply("malformed", FALSE, <<>>), RelReply("throw", FALSE, <<>>)}

ReformatReplies(entry) ==
    {[kind |-> "ok", text |-> TemplateText(entry.displayName)],
     [kind |-> "ok", text |-> entry.text],
     [kind |-> "malformed", text |-> <<>>], [kind |-> "throw", text |-> <<>>]}

Proposal(currentName, proposedName) ==
    [isObject |-> TRUE, currentIsString |-> TRUE, proposedIsString |-> TRUE,
     currentName |-> currentName, proposedName |-> proposedName]

NamesReplies ==
    {[kind |-> "ok", proposals |-> <<Proposal(Mira, MiraStone), Proposal(Bo, Bo)>>],
     [kind |-> "ok", proposals |-> <<>>],
     [kind |-> "malformed", proposals |-> <<>>],
     [kind |-> "throw", proposals |-> <<>>]}

CrowdReplies(elem) ==
    {GenerateReply("ok", PlainProse(elem.name)), GenerateReply("throw", <<>>)}

\* the replies the oracle can give to the call a pass makes for an item
Replies(pass, item) ==
    CASE pass = "identify" -> IdentifyRepliesIn(mode)
      [] pass = "generate" ->
            IF mode = "prose" THEN DraftReplies(item)
            ELSE IF mode = "crowd" THEN CrowdReplies(item)
            ELSE GenerateReplies(item)
      [] pass \in {"merge", "update"} -> UpdateReplies(item.entry)
      [] pass \in {"rel", "relonly"} -> RelReplies
      [] pass = "reformat" -> ReformatReplies(item)
      [] pass = "names" -> NamesReplies

\* the task function a pass calls, applied to the oracle's reply
Task(pass, item, reply) ==
    CASE pass = "identify" -> identifyLoreElements(settings.enabledCategories, reply)
      [] pass = "generate" ->
            generateLoreEntryFromElement(item.name, item.category, reply)
      [] pass \in {"merge", "update"} -> detectEntryUpdate(reply)
      [] pass \in {"rel", "relonly"} -> updateRelationshipFields(reply)
      [] pass = "reformat" -> enrichAndReformatEntry(reply)
      [] pass = "names" -> propagateFamilyNames(reply)

\* ------------------------------------------------------------------------
\* scanForLore: the passes.  A context c holds the locals of the call that
\* change from one oracle call to the next.
\* ------------------------------------------------------------------------

NullOf(pass) ==
    CASE pass = "generate" -> NullEntry
      [] pass \in {"rel", "relonly"} -> NoUpdate
      [] OTHER -> <<>>

\* a promise of the batch: the item it is for, the provider it was given,
\* the function its oracle call is in, and how it settled
Slot(item, via, stage, pass) ==
    [item |-> item, via |-> via, stage |-> stage, kind |-> "none",
     out |-> Returned(NullOf(pass))]

InFlight(b) == Cardinality({k \in 1..Len(b) : b[k].stage # "settled"})

\* a batch whose index moves on by two whatever the number of providers
StartBatchByTwo(c, alive) ==
    LET providers == getProviders(alive)
        n == Min2(Len(providers), Len(c.work) - c.loopI)
    IN  [c EXCEPT
            !.batch = [k \in 1..n |->
                         Slot(c.loopI + k, providers[k],
                              IF providers[k] = "primaryFn" THEN "primaryFn"
                              ELSE wrappedSecondaryEntry(alive), c.pc)],
            !.loopI = c.loopI + 2]

\* batch = work.slice(i, i + providers.length), one task per provider
StartBatch(c, alive) ==
    LET providers == getProviders(alive)
        n == Min2(Len(providers), Len(c.work) - c.loopI)
    IN  [c EXCEPT
            !.batch = [k \in 1..n |->
                         Slot(c.loopI + k, providers[k],
                              IF providers[k] = "primaryFn" THEN "primaryFn"
                              ELSE wrappedSecondaryEntry(alive), c.pc)],
            !.loopI = c.loopI + Len(providers)]

\* one call on generateTextFn for work[i]
StartCall(c) ==
    [c EXCEPT !.batch = <<Slot(c.loopI + 1, "primaryFn", "primaryFn", c.pc)>>,
              !.loopI = c.loopI + 1]

lowerNames(seq, field) == {toLowerCase(seq[i][field]) : i \in 1..Len(seq)}

\* return { state: updatedState, summary }
Finish(c, ref) ==
    [c EXCEPT !.pc = "done", !.work = <<>>, !.loopI = 0, !.batch = <<>>,
              !.heap = ResetChars(c.heap, ref),
              !.result = [returned |-> TRUE, threw |-> FALSE, state |-> ref,
                          error |-> FALSE, noResults |-> FALSE,
                          summary |-> Summary(c.counters), exit |-> "scanned"]]

\* the end of the relationships-only run
FinishRelationshipsOnly(c, ref) ==
    [Finish(c, ref) EXCEPT
        !.result.noResults = (c.counters.relationshipUpdatesFound = 0),
        !.result.exit = "relationships"]

allCharEntries(existingEntries, s) ==
    SelectSeq(existingEntries,
              LAMBDA e : e.text # <<>> /\ (e.category = "character"
                                           \/ looksLikeCharacterEntry(e.text)))
        \o SelectSeq(s.pendingEntries, LAMBDA e : e.category = "character")

\* Pass 5
EnterNames(c, ref, existingEntries) ==
    IF Len(allCharEntries(existingEntries, Deref(c.heap, ref))) >= 2
    THEN [c EXCEPT !.pc = "names", !.work = <<>>, !.loopI = 0,
                   !.batch = <<Slot(0, "primaryFn", "primaryFn", "names")>>]
    ELSE Finish(c, ref)

\* the skip set of Pass 4 without the targets of the pending merges
alreadyPendingUpdateNames(s) ==
    lowerNames(s.pendingUpdates, "displayName")
        \cup {toLowerCase(n) : n \in Range(s.dismissedReformatNames)}

alreadyPendingNames(s) ==
    lowerNames(s.pendingUpdates, "displayName")
        \cup lowerNames(s.pendingMerges, "existingDisplayName")
        \cup {toLowerCase(n) : n \in Range(s.dismissedReformatNames)}

characterEntries(existingEntries, s) ==
    SelectSeq(existingEntries,
              LAMBDA e : /\ HasText(e)
                         /\ ~isCharacterEntryFormatted(e.text)
                         /\ looksLikeCharacterEntry(e.text)
                         /\ toLowerCase(e.displayName) \notin alreadyPendingNames(s))

\* Pass 4
EnterReformat(c, ref, alive, existingEntries) ==
    LET ce == characterEntries(existingEntries, Deref(c.heap, ref))
    IN  IF Len(ce) > 0
        THEN StartBatch([c EXCEPT !.pc = "reformat", !.loopI = 0,
                                  !.work = Take(ce, MAX_UPDATES_PER_SCAN)], alive)
        ELSE EnterNames(c, ref, existingEntries)

formattedChars(existingEntries, s) ==
    SelectSeq(existingEntries,
              LAMBDA e : /\ HasText(e)
                         /\ isCharacterEntryFormatted(e.text)
                         /\ toLowerCase(e.displayName)
                                \notin lowerNames(s.pendingUpdates, "displayName"))

\* Pass 3b
EnterRel(c, ref, alive, existingEntries, autoDetectUpdates) ==
    LET fc == formattedChars(existingEntries, Deref(c.heap, ref))
    IN  IF Len(fc) > 0 /\ autoDetectUpdates
        THEN StartCall([c EXCEPT !.pc = "rel", !.loopI = 0,
                                 !.work = Take(fc, MAX_RELATIONSHIP_UPDATES)])
        ELSE EnterReformat(c, ref, alive, existingEntries)

EnterUpdateOwnBudget(c, p, ref, alive, existingEntries, autoDetectUpdates) ==
    IF Len(p.existingElements) > 0 /\ autoDetectUpdates
    THEN StartBatch([c EXCEPT !.pc = "update", !.loopI = 0,
                              !.work = Take(p.existingElements, MAX_UPDATES_PER_SCAN)],
                    alive)
    ELSE EnterRel(c, ref, alive, existingEntries, autoDetectUpdates)

\* Pass 3
EnterUpdate(c, p, ref, alive, existingEntries, autoDetectUpdates) ==
    LET updateBudget == IF MAX_UPDATES_PER_SCAN - c.counters.mergeCount > 0
                        THEN MAX_UPDATES_PER_SCAN - c.counters.mergeCount ELSE 0
    IN  IF Len(p.existingElements) > 0 /\ autoDetectUpdates /\ updateBudget > 0
        THEN StartBatch([c EXCEPT !.pc = "update", !.loopI = 0,
                                  !.work = Take(p.existingElements, updateBudget)],
                        alive)
        ELSE EnterRel(c, ref, alive, existingEntries, autoDetectUpdates)

\* Merge phase
EnterMerge(c, p, ref, alive, existingEntries, autoDetectUpdates) ==
    LET mergeCount == Min2(Len(p.mergeElements), MAX_UPDATES_PER_SCAN)
        c1 == [c EXCEPT !.counters.mergeCount = mergeCount]
    IN  IF mergeCount > 0
        THEN StartBatch([c1 EXCEPT !.pc = "merge", !.loopI = 0,
                                   !.work = Take(p.mergeElements, mergeCount)], alive)
        ELSE EnterUpdate(c1, p, ref, alive, existingEntries, autoDetectUpdates)

\* Pass 2
EnterGenerate(c, p, ref, alive, existingEntries, autoDetectUpdates) ==
    IF Len(p.newElements) > 0
    THEN StartBatch([c EXCEPT !.pc = "generate", !.loopI = 0,
                              !.work = p.newElements], alive)
    ELSE EnterMerge(c, p, ref, alive, existingEntries, autoDetectUpdates)

\* the same with the update pass run before the merge phase
ContinueUpdatesFirst(c, p, ref, alive, existingEntries, autoDetectUpdates) ==
    IF c.pc \in {"generate", "merge", "update", "reformat"} /\ c.loopI < Len(c.work)
    THEN StartBatch(c, alive)
    ELSE IF c.pc \in {"rel", "relonly"} /\ c.loopI < Len(c.work)
    THEN StartCall(c)
    ELSE CASE c.pc = "generate" ->
                IF Len(p.existingElements) > 0 /\ autoDetectUpdates
                THEN StartBatch([c EXCEPT !.pc = "update", !.loopI = 0,
                                          !.work = Take(p.existingElements,
                                                        MAX_UPDATES_PER_SCAN)], alive)
                ELSE EnterMerge(c, p, ref, alive, existingEntries, autoDetectUpdates)
           [] c.pc = "update" ->
                IF Len(p.mergeElements) > 0 /\ c.counters.mergeCount = 0
                THEN StartBatch([c EXCEPT !.pc = "merge", !.loopI = 0,
                                          !.counters.mergeCount =
                                              Min2(Len(p.mergeElements), MAX_UPDATES_PER_SCAN),
                                          !.work = Take(p.mergeElements,
                                                        MAX_UPDATES_PER_SCAN)], alive)
                ELSE EnterRel(c, ref, alive, existingEntries, autoDetectUpdates)
           [] c.pc = "merge" ->
                EnterRel(c, ref, alive, existingEntries, autoDetectUpdates)
           [] c.pc = "rel" -> EnterReformat(c, ref, alive, existingEntries)
           [] c.pc = "reformat" -> EnterNames(c, ref, existingEntries)
           [] c.pc = "names" -> Finish(c, ref)
           [] c.pc = "relonly" -> FinishRelationshipsOnly(c, ref)

\* what the call does after the results of a batch are processed: the next
\* batch of the loop, or the passes that follow, up to the next oracle call
Continue(c, p, ref, alive, existingEntries, autoDetectUpdates) ==
    IF c.pc \in {"generate", "merge", "update", "reformat"} /\ c.loopI < Len(c.work)
    THEN StartBatch(c, alive)
    ELSE IF c.pc \in {"rel", "relonly"} /\ c.loopI < Len(c.work)
    THEN StartCall(c)
    ELSE CASE c.pc = "generate" ->
                EnterMerge(c, p, ref, alive, existingEntries, autoDetectUpdates)
           [] c.pc = "merge" ->
                EnterUpdate(c, p, ref, alive, existingEntries, autoDetectUpdates)
           [] c.pc = "update" ->
                EnterRel(c, ref, alive, existingEntries, autoDetectUpdates)
           [] c.pc = "rel" -> EnterReformat(c, ref, alive, existingEntries)
           [] c.pc = "reformat" -> EnterNames(c, ref, existingEntries)
           [] c.pc = "names" -> Finish(c, ref)
           [] c.pc = "relonly" -> FinishRelationshipsOnly(c, ref)

\* ------------------------------------------------------------------------
\* scanForLore: what each pass does with the results of a batch
\* ------------------------------------------------------------------------

Bump(c, counter) == [c EXCEPT !.counters[counter] = @ + 1]

\* a push that is not counted in the summary
PushToUncounted(c, ref, field, item, counter) ==
    [c EXCEPT !.heap = Push(c.heap, ref, field, item)]

PushTo(c, ref, field, item, counter) ==
    Bump([c EXCEPT !.heap = Push(c.heap, ref, field, item)], counter)

NameUpdate(entry, updatedText, proposedName) ==
    [PendingUpdate(entry, "character", updatedText, "name")
        EXCEPT !.proposedDisplayName = proposedName]

\* allCharEntries.find(...) of Pass 5: the index of the entry, 0 for undefined
matchEntry(all, proposal) ==
    LET Matches(e) ==
            LET field == extractField(e.text, "Name")
                entryName == IF field # <<>> THEN field ELSE e.displayName
            IN  \/ toLowerCase(entryName) = toLowerCase(proposal.currentName)
                \/ toLowerCase(e.displayName) = toLowerCase(proposal.currentName)
        hits == {i \in 1..Len(all) : Matches(all[i])}
    IN  IF hits = {} THEN 0 ELSE CHOOSE i \in hits : \A j \in hits : i <= j

RECURSIVE ApplyProposals(_, _, _, _)
ApplyProposals(c, ref, all, proposals) ==
    IF proposals = <<>> THEN c
    ELSE LET m == matchEntry(all, Head(proposals))
             c1 == IF m = 0 THEN c
                   ELSE PushTo(c, ref, "pendingUpdates",
                               NameUpdate(all[m],
                                          ReplaceNameLine(all[m].text,
                                                          Head(proposals).proposedName),
                                          Head(proposals).proposedName),
                               "nameProposals")
         IN  ApplyProposals(c1, ref, all, Tail(proposals))

\* the body of the loop over the results, for one result
JoinSlot(c, ref, slot, existingEntries) ==
    LET item == c.work[slot.item]
    IN  CASE c.pc = "generate" ->
               LET entry == CatchToNull(slot.out, NullEntry)
               IN  IF entry # NullEntry /\ TextLength(entry.text) > 0
                   THEN PushTo(c, ref, "pendingEntries", entry, "generated")
                   ELSE c
          [] c.pc = "merge" ->
               LET updatedText == CatchToNull(slot.out, <<>>)
               IN  PushTo(c, ref, "pendingMerges",
                          PendingMerge(item.name, item.category, item.entry,
                                       item.mergeTarget,
                                       mergedKeys(item.entry, item.name),
                                       IF updatedText # <<>> THEN updatedText
                                       ELSE item.entry.text),
                          "mergesFound")
          [] c.pc = "update" ->
               LET updatedText == CatchToNull(slot.out, <<>>)
               IN  IF updatedText # <<>>
                   THEN PushTo(c, ref, "pendingUpdates",
                               PendingUpdate([item.entry EXCEPT !.displayName =
                                                 IF @ # <<>> THEN @ ELSE item.name],
                                             item.category, updatedText, "content"),
                               "updatesFound")
                   ELSE c
          [] c.pc \in {"rel", "relonly"} ->
               IF slot.out.threw \/ slot.out.val.noUpdate THEN c
               ELSE LET updatedText == spliceRelationshipFields(item.text, slot.out.val)
                    IN  IF updatedText # item.text
                        THEN PushTo(c, ref, "pendingUpdates",
                                    PendingUpdate(item, "character", updatedText,
                                                  "relationship"),
                                    "relationshipUpdatesFound")
                        ELSE c
          [] c.pc = "reformat" ->
               LET reformatted == CatchToNull(slot.out, <<>>)
               IN  IF reformatted # <<>> /\ reformatted # item.text
                   THEN PushTo(c, ref, "pendingUpdates",
                               PendingUpdate(item, "character", reformatted,
                                             "reformat"),
                               "reformatsFound")
                   ELSE c
          [] c.pc = "names" ->
               ApplyProposals(c, ref,
                              allCharEntries(existingEntries, Deref(c.heap, ref)),
                              slot.out.val)

RECURSIVE JoinFrom(_, _, _, _)
JoinFrom(c, ref, k, existingEntries) ==
    IF k > Len(c.batch) THEN c
    ELSE JoinFrom(JoinSlot(c, ref, c.batch[k], existingEntries), ref, k + 1,
                  existingEntries)

\* whether what a task returned leads to a proposal
Usable(pass, item, val) ==
    CASE pass = "generate" -> val # NullEntry /\ TextLength(val.text) > 0
      [] pass \in {"rel", "relonly"} -> ~val.noUpdate
      [] pass = "reformat" -> val # <<>> /\ val # item.text
      [] OTHER -> val # <<>>

\* what is recorded of a settled call: the pass, the element or entry it was
\* for, and whether the oracle failed ("failed": it threw or its output was
\* unusable), declined ("nothing") or answered ("usable")
Logged(c, slot) ==
    LET item == IF slot.item = 0 THEN <<>> ELSE c.work[slot.item]
    IN  [pass |-> c.pc,
         name |-> IF slot.item = 0 THEN <<>>
                  ELSE IF c.pc \in {"generate", "merge", "update"} THEN item.name
                  ELSE item.displayName,
         outcome |-> IF slot.kind # "ok" THEN "failed"
                     ELSE IF ~slot.out.threw /\ Usable(c.pc, item, slot.out.val)
                     THEN "usable" ELSE "nothing"]

Log(c) == [c EXCEPT !.olog = @ \cup {Logged(c, c.batch[k]) : k \in 1..Len(c.batch)}]

\* the call rejects: an exception reached scanForLore's caller
Reject(c) ==
    [c EXCEPT !.pc = "done", !.batch = <<>>,
              !.result = [NoResult EXCEPT !.threw = TRUE, !.exit = "threw"]]

\* a return that hands back the state with its counter reset
ReturnReset(c, ref, error, exit) ==
    [c EXCEPT !.pc = "done", !.batch = <<>>, !.heap = ResetChars(c.heap, ref),
              !.result = [NoResult EXCEPT !.returned = TRUE, !.state = ref,
                                          !.error = error, !.noResults = ~error,
                                          !.exit = exit]]

\* return { state, ... } with the state that was passed in
ReturnInput(c, ref, error, exit) ==
    [c EXCEPT !.pc = "done", !.batch = <<>>,
              !.result = [NoResult EXCEPT !.returned = TRUE, !.state = ref,
                                          !.error = error, !.noResults = ~error,
                                          !.exit = exit]]

\* ------------------------------------------------------------------------
\* scanForLore: the call, from one oracle call to the next
\* ------------------------------------------------------------------------

InitScan ==
    /\ mode = "scan"
    /\ storyLen \in {40, 400}
    /\ settings \in [relationshipsOnly : BOOLEAN, autoDetectUpdates : BOOLEAN,
                    enabledCategories : {ALL_CATEGORIES, {}}]
    /\ lorebook \in ScanEntryChoices
    /\ hasSecondary \in BOOLEAN
    /\ \E s \in ScanStateChoices :
          /\ heap = Store(s)
          /\ inputSnapshot = [state |-> s, existingEntries |-> lorebook]
    /\ stateRef = 1
    /\ pc = "start"
    /\ part = EmptyPartition
    /\ updatedState = 0
    /\ work = <<>>
    /\ loopI = 0
    /\ batch = <<>>
    /\ counters = NoCounters
    /\ olog = {}
    /\ result = NoResult
    /\ secondaryAlive = FALSE
    /\ failCount = 0
    /\ hcalls = <<>>
    /\ secLog = <<>>
    /\ seen = NotSeen
    /\ PartIdle
    /\ FnIdle

\* the locals of a call that has not started, for the state value s
FrameAtStart(s) ==
    /\ heap = Store(s)
    /\ inputSnapshot = [state |-> s, existingEntries |-> lorebook]
    /\ stateRef = 1
    /\ pc = "start"
    /\ part = EmptyPartition
    /\ updatedState = 0
    /\ work = <<>>
    /\ loopI = 0
    /\ batch = <<>>
    /\ counters = NoCounters
    /\ olog = {}
    /\ result = NoResult
    /\ secondaryAlive = FALSE
    /\ failCount = 0
    /\ hcalls = <<>>
    /\ secLog = <<>>
    /\ seen = NotSeen
    /\ PartIdle
    /\ FnIdle

\* a scan of a lorebook of places: several merge hints, some at one entry
InitBusy ==
    /\ mode = "busy"
    /\ storyLen = 400
    /\ settings \in [relationshipsOnly : {FALSE}, autoDetectUpdates : BOOLEAN,
                    enabledCategories : {ALL_CATEGORIES}]
    /\ lorebook = BusyBook
    /\ hasSecondary \in BOOLEAN
    /\ \E s \in BusyStateChoices : FrameAtStart(s)

\* a scan of a lorebook of four formatted character entries
InitCast ==
    /\ mode = "cast"
    /\ storyLen = 400
    /\ settings \in [relationshipsOnly : BOOLEAN, autoDetectUpdates : {TRUE},
                    enabledCategories : {ALL_CATEGORIES}]
    /\ lorebook = CastBook
    /\ hasSecondary \in BOOLEAN
    /\ \E s \in CastStateChoices : FrameAtStart(s)

\* a scan of a lorebook of five unformatted character entries
InitProse ==
    /\ mode = "prose"
    /\ storyLen = 400
    /\ settings \in [relationshipsOnly : {FALSE}, autoDetectUpdates : {TRUE},
                    enabledCategories : {ALL_CATEGORIES}]
    /\ lorebook = ProseBook
    /\ hasSecondary \in BOOLEAN
    /\ \E s \in ProseStateChoices : FrameAtStart(s)

\* a scan that drafts four entries before it reformats three
InitCrowd ==
    /\ mode = "crowd"
    /\ storyLen = 400
    /\ settings \in [relationshipsOnly : {FALSE}, autoDetectUpdates : {TRUE},
                    enabledCategories : {ALL_CATEGORIES}]
    /\ lorebook = ProseBook
    /\ hasSecondary \in BOOLEAN
    /\ FrameAtStart(EmptyState)

Ctx ==
    [pc |-> pc, work |-> work, loopI |-> loopI, batch |-> batch, heap |-> heap,
     counters |-> counters, olog |-> olog, result |-> result]

Apply(c) ==
    /\ pc' = c.pc
    /\ work' = c.work
    /\ loopI' = c.loopI
    /\ batch' = c.batch
    /\ heap' = c.heap
    /\ counters' = c.counters
    /\ olog' = c.olog
    /\ result' = c.result

ScanFrame ==
    /\ UNCHANGED <<mode, storyLen, settings, lorebook, stateRef, inputSnapshot,
                   hasSecondary>>
    /\ UNCHANGED partVars
    /\ UNCHANGED callerVars
    /\ UNCHANGED fnVars

\* scanForLore is called: up to its first oracle call, or to its return
ScanCall ==
    /\ mode \in ScanModes
    /\ pc = "start"
    /\ IF storyLen < MinStoryChars
       THEN /\ Apply(ReturnInput(Ctx, stateRef, TRUE, "guard"))
            /\ UNCHANGED updatedState
       ELSE IF settings.relationshipsOnly
       THEN LET cl == JsonClone(heap, stateRef)
                c == [Ctx EXCEPT !.heap = cl.heap]
                all == SelectSeq(lorebook,
                                 LAMBDA e : HasText(e) /\ isCharacterEntryFormatted(e.text))
                pendingNames == lowerNames(Deref(cl.heap, cl.ref).pendingUpdates,
                                           "displayName")
                todo == SelectSeq(all, LAMBDA e :
                                    toLowerCase(e.displayName) \notin pendingNames)
            IN  /\ updatedState' = cl.ref
                /\ IF Len(all) = 0
                   THEN Apply(ReturnInput(c, stateRef, FALSE, "no-formatted"))
                   ELSE Apply(Continue([c EXCEPT !.pc = "relonly", !.work = todo],
                                       part, cl.ref, FALSE, lorebook, FALSE))
       ELSE IF settings.enabledCategories = {}
       THEN /\ Apply(ReturnInput(Ctx, stateRef, FALSE, "no-elements"))
            /\ UNCHANGED updatedState
       ELSE /\ Apply([Ctx EXCEPT !.pc = "identify",
                         !.batch = <<Slot(0, "primaryFn", "primaryFn", "identify")>>])
            /\ UNCHANGED updatedState
    /\ UNCHANGED <<part, secondaryAlive, failCount>>
    /\ ScanFrame

\* const updatedState = ...; const hybrid = ...; then Pass 2
StartPasses(c, p, cl, hybrid) ==
    /\ part' = p
    /\ updatedState' = cl.ref
    /\ secondaryAlive' = hybrid.secondaryAlive
    /\ failCount' = hybrid.failCount
    /\ Apply(EnterGenerate([c EXCEPT !.heap = cl.heap], p, cl.ref,
                           hybrid.secondaryAlive, lorebook,
                           settings.autoDetectUpdates))

\* the code after partitionElements(elements, existingEntries, state)
AfterPartition(c, fc, p) ==
    IF Len(p.newElements) = 0 /\ Len(p.existingElements) = 0
          /\ Len(p.mergeElements) = 0
    THEN /\ Apply(ReturnInput(c, stateRef, FALSE, "all-excluded"))
         /\ part' = p
         /\ UNCHANGED <<updatedState, secondaryAlive>>
         /\ failCount' = fc
    ELSE StartPasses(c, p, JsonClone(heap, stateRef), CreateHybrid(hasSecondary))

\* the code after `await identifyLoreElements(...)`
AfterIdentify(c, fc) ==
    IF c.batch[1].out.threw
    THEN /\ Apply(Reject(c))
         /\ UNCHANGED <<part, updatedState, secondaryAlive>>
         /\ failCount' = fc
    ELSE IF Len(c.batch[1].out.val) = 0
    THEN /\ Apply(ReturnInput(c, stateRef, FALSE, "no-elements"))
         /\ UNCHANGED <<part, updatedState, secondaryAlive>>
         /\ failCount' = fc
    ELSE AfterPartition(c, fc, partitionElements(c.batch[1].out.val, lorebook,
                                                 Deref(heap, stateRef)))

\* the code after `await Promise.all(promises)`, or after the awaited call of
\* a sequential pass
AfterBatch(c, fc) ==
    /\ IF c.pc = "names" /\ c.batch[1].out.threw
       THEN Apply(Reject(c))
       ELSE Apply(Continue(JoinFrom(c, updatedState, 1, lorebook), part,
                           updatedState, secondaryAlive, lorebook,
                           settings.autoDetectUpdates))
    /\ failCount' = fc
    /\ UNCHANGED <<part, updatedState, secondaryAlive>>

\* the call resumes as soon as one promise of the batch has settled
SettleAny(k, reply, fc) ==
    LET item == IF batch[k].item = 0 THEN <<>> ELSE work[batch[k].item]
        b == [batch EXCEPT ![k].stage = "settled", ![k].kind = reply.kind,
                           ![k].out = Task(pc, item, reply)]
        c == Log([Ctx EXCEPT !.batch = b])
    IN  IF pc = "identify" THEN AfterIdentify(c, fc) ELSE AfterBatch(c, fc)

\* the oracle call of promise k settles with `reply`; when it was the last
\* one the call was waiting for, the call resumes
Settle(k, reply, fc) ==
    LET item == IF batch[k].item = 0 THEN <<>> ELSE work[batch[k].item]
        b == [batch EXCEPT ![k].stage = "settled", ![k].kind = reply.kind,
                           ![k].out = Task(pc, item, reply)]
        c == Log([Ctx EXCEPT !.batch = b])
    IN  IF InFlight(b) > 0
        THEN /\ batch' = b
             /\ failCount' = fc
             /\ UNCHANGED <<pc, work, loopI, heap, counters, olog, result, part,
                            updatedState, secondaryAlive>>
        ELSE IF pc = "identify" THEN AfterIdentify(c, fc) ELSE AfterBatch(c, fc)

ItemOf(k) == IF batch[k].item = 0 THEN <<>> ELSE work[batch[k].item]

\* secondaryFn resolves for promise k
SlotSecondaryResolves ==
    /\ mode \in ScanModes
    /\ \E k \in 1..Len(batch) :
          /\ batch[k].stage = "secondaryFn"
          /\ \E reply \in {r \in Replies(pc, ItemOf(k)) : r.kind # "throw"} :
                Settle(k, reply, SecondaryReturn(failCount))
    /\ ScanFrame

\* secondaryFn throws for promise k: the catch block, up to the retry
SlotSecondaryThrows ==
    /\ mode \in ScanModes
    /\ \E k \in 1..Len(batch) :
          /\ batch[k].stage = "secondaryFn"
          /\ LET after == SecondaryCatch(secondaryAlive, failCount)
             IN  /\ failCount' = after.failCount
                 /\ secondaryAlive' = after.secondaryAlive
          /\ batch' = [batch EXCEPT ![k].stage = "retry"]
    /\ UNCHANGED <<pc, work, loopI, heap, counters, olog, result, part, updatedState>>
    /\ ScanFrame

\* a primaryFn call (a provider's own, or wrappedSecondary's retry) settles
SlotPrimarySettles ==
    /\ mode \in ScanModes
    /\ \E k \in 1..Len(batch) :
          /\ batch[k].stage \in {"primaryFn", "retry"}
          /\ \E reply \in Replies(pc, ItemOf(k)) : Settle(k, reply, failCount)
    /\ ScanFrame

NextScan ==
    \/ ScanCall
    \/ SlotSecondaryResolves
    \/ SlotSecondaryThrows
    \/ SlotPrimarySettles

SpecScan == InitScan /\ [][NextScan]_vars

InitWide == InitBusy \/ InitCast \/ InitProse \/ InitCrowd

SpecWide == InitWide /\ [][NextScan]_vars

\* ---- C1 ----------------------------------------------------------------

\* C1: scanForLore never mutates its inputs: at every point of the call, on
\* whichever path it exits and however the oracle behaves, the state object
\* that was passed in (with each of its arrays) and existingEntries hold
\* what they held when the call was made.
C1_InputsUntouched ==
    mode = "scan" =>
        /\ Deref(heap, stateRef) = inputSnapshot.state
        /\ lorebook = inputSnapshot.existingEntries

\* a scan that returned a state with a generated entry and a merge in it
C1_Witness ==
    /\ pc = "done"
    /\ result.exit = "scanned"
    /\ result.summary.generated > 0
    /\ result.summary.mergesFound > 0
    /\ Len(Deref(heap, result.state).pendingEntries)
          > Len(inputSnapshot.state.pendingEntries)

\* ---- C2 ----------------------------------------------------------------

Fresh(ref) ==
    /\ ref # stateRef
    /\ ArraysOf(heap, ref) \cap ArraysOf(heap, stateRef) = {}

\* C2 as the specification states it: every return hands back a state that
\* is a new object sharing no array with the input
C2_AsClaimed == (mode = "scan" /\ result.returned) => Fresh(result.state)

\* C2: scanForLore returns a new state -- another object, sharing no array
\* with the input state -- exactly on the exits that can carry proposals: a
\* full run that got past partitioning, and a relationships-only run over at
\* least one formatted character entry.  On the other exits (story too
\* short, no formatted character, nothing identified, everything excluded)
\* it returns the very object it was given.
C2_NewStateWhenScanned ==
    (mode = "scan" /\ result.returned) =>
        IF result.exit \in {"scanned", "relationships"}
        THEN Fresh(result.state)
        ELSE result.state = stateRef

\* a relationships-only run that returned a state with a relationship update
C2_Witness ==
    /\ pc = "done"
    /\ result.exit = "relationships"
    /\ result.summary.relationshipUpdatesFound > 0
    /\ Fresh(result.state)

\* ---- C6 ----------------------------------------------------------------

\* C6 as the specification states it: while the secondary is not alive,
\* never two oracle calls of the scan in flight
C6_AsClaimed == (mode = "scan" /\ ~secondaryAlive) => InFlight(batch) <= 1

\* C6: while primary-only, a batch holds one call, so no two oracle calls
\* are in flight -- except in the batch during which the secondary was
\* disabled: there the retry on the primary of the call whose failure
\* disabled it can be in flight together with the batch's other call.
C6_OneCallAfterDisabling ==
    (mode = "scan" /\ ~secondaryAlive) =>
        /\ InFlight(batch) <= 2
        /\ InFlight(batch) = 2 => \E k \in 1..Len(batch) : batch[k].stage = "retry"
        /\ (\A k \in 1..Len(batch) : batch[k].via = "primaryFn") => Len(batch) <= 1

\* after the secondary was disabled, a batch of one call although two items
\* were left to process
C6_Witness ==
    /\ hasSecondary
    /\ ~secondaryAlive
    /\ pc \in {"generate", "merge", "update", "reformat"}
    /\ Len(batch) = 1
    /\ batch[1].via = "primaryFn"
    /\ Len(work) - batch[1].item >= 1

\* ---- C7 ----------------------------------------------------------------

\* the proposal a usable answer leads to is in the state s; a draft is told
\* by its text, since the oracle may give it another display name
Proposed(s, l) ==
    CASE l.pass = "generate" ->
            \E e \in Range(s.pendingEntries) : e.text = PlainProse(l.name)
      [] l.pass = "merge" ->
            \E m \in Range(s.pendingMerges) : m.newName = l.name
      [] l.pass = "update" ->
            \E u \in Range(s.pendingUpdates) :
                u.displayName = l.name /\ u.origin = "content"
      [] l.pass \in {"rel", "relonly"} ->
            \E u \in Range(s.pendingUpdates) :
                u.displayName = l.name /\ u.origin = "relationship"
      [] l.pass = "reformat" ->
            \E u \in Range(s.pendingUpdates) :
                u.displayName = l.name /\ u.origin = "reformat"
      [] OTHER -> TRUE

\* C7: a failing oracle call never aborts the batch or the scan: the call
\* never rejects, it ends by returning a result, and in a completed scan
\* every element whose own call was answered usably has its proposal in the
\* returned state, whatever happened to the other calls.
C7_FailuresDoNotAbort ==
    mode = "scan" =>
        /\ ~result.threw
        /\ pc = "done" => result.returned
        /\ (pc = "done" /\ result.exit \in {"scanned", "relationships"}) =>
              \A l \in olog :
                  l.outcome = "usable" => Proposed(Deref(heap, result.state), l)

\* a completed scan in which one generate call failed and another of the
\* same pass led to a pending entry
C7_Witness ==
    /\ pc = "done"
    /\ result.exit = "scanned"
    /\ \E l1, l2 \in olog :
          /\ l1.pass = "generate" /\ l1.outcome = "failed"
          /\ l2.pass = "generate" /\ l2.outcome = "usable"
          /\ Proposed(Deref(heap, result.state), l2)

\* ---- C8 ----------------------------------------------------------------

\* the items pushed to a list between two contents of the working state
Added(before, after, field) ==
    {after[field][i] : i \in (Len(before[field]) + 1)..Len(after[field])}

\* nothing was recorded for `name`: no pending entry, update or merge names
\* it, and it did not enter the set of excluded names
NoTrace(name, before, after) ==
    /\ \A e \in Added(before, after, "pendingEntries") : e.displayName # name
    /\ \A u \in Added(before, after, "pendingUpdates") : u.displayName # name
    /\ \A m \in Added(before, after, "pendingMerges") : m.newName # name
    /\ toLowerCase(name) \notin (excludeNames(after) \ excludeNames(before))

\* in the step that processes a batch: each element of the batch whose call
\* failed in one of the passes leaves no trace
FailedLeaveNoTrace(passes) ==
    (mode = "scan" /\ updatedState # 0 /\ pc \in passes) =>
        \A l \in olog' \ olog :
            (l.pass = pc /\ l.outcome = "failed") =>
                NoTrace(l.name, Deref(heap, updatedState), Deref(heap', updatedState))

\* C8 as the specification states it, the merge pass included
C8_AsClaimed ==
    [][FailedLeaveNoTrace({"generate", "merge", "update", "reformat"})]_vars

\* the pending merge of `name` proposes the existing entry's text
KeepsExistingText(name, before, after) ==
    \E m \in Added(before, after, "pendingMerges") :
        m.newName = name /\ m.proposedText = m.existingText

\* C8: when an element's oracle call fails in the generate, update-detect
\* or reformat pass, only that element is dropped for the pass: no proposal
\* is recorded for it and its name enters no exclusion set.  In the merge
\* pass a failed call does not drop the element: its merge is still
\* proposed, with the existing entry's text as the proposed text.
C8_FailedElementDropped ==
    [][ /\ FailedLeaveNoTrace({"generate", "update", "reformat"})
        /\ (mode = "scan" /\ pc = "merge") =>
              \A l \in olog' \ olog :
                  l.outcome = "failed" =>
                      KeepsExistingText(l.name, Deref(heap, updatedState),
                                        Deref(heap', updatedState)) ]_vars

\* a completed scan in which one update-detect call failed while another of
\* the same pass led to a pending update
C8_Witness ==
    /\ pc = "done"
    /\ result.exit = "scanned"
    /\ \E l1, l2 \in olog :
          /\ l1.pass = "update" /\ l1.outcome = "failed"
          /\ l2.pass = "update" /\ l2.outcome = "usable"
          /\ ~\E u \in Range(Deref(heap, result.state).pendingUpdates) :
                u.displayName = l1.name /\ u.origin = "content"

\* ---- C11 ---------------------------------------------------------------

\* no two pending merges of the state s name the same existing entry
OneMergePerTarget(s) ==
    \A i, j \in 1..Len(s.pendingMerges) :
        i # j => toLowerCase(s.pendingMerges[i].existingDisplayName)
                    # toLowerCase(s.pendingMerges[j].existingDisplayName)

\* C11: merges are serialized onto one target: the pending merges of the
\* state a scan returns never hold two proposals with the same case-folded
\* existingDisplayName, also when two elements identified in the same scan
\* both point at the same entry.
C11_AsClaimed ==
    (mode \in ScanModes /\ result.returned) =>
        OneMergePerTarget(Deref(heap, result.state))

\* ---- C12 ---------------------------------------------------------------

\* the oracle calls a pass has made so far: those joined and those in flight
CallsOf(pass) ==
    Cardinality({l \in olog : l.pass = pass})
        + (IF pc = pass THEN Len(batch) ELSE 0)

\* the proposals the running scan has added to a list of its state so far
AddedSoFar(field) ==
    Len(Deref(heap, updatedState)[field]) - Len(inputSnapshot.state[field])

ContentUpdatesSoFar ==
    Cardinality({i \in 1..Len(Deref(heap, updatedState).pendingUpdates) :
                    /\ i > Len(inputSnapshot.state.pendingUpdates)
                    /\ Deref(heap, updatedState).pendingUpdates[i].origin = "content"})

\* C12: merges and updates share one budget of MAX_UPDATES_PER_SCAN per
\* scan: at every point of a full scan the pending merges created plus the
\* oracle calls of the update-detect pass are at most 3, the content
\* updates created are no more than those calls, and the update-detect
\* pass calls the oracle at most 3 minus the number of merges processed
\* times.
C12_SharedBudget ==
    (mode \in ScanModes /\ ~settings.relationshipsOnly /\ updatedState # 0) =>
        /\ AddedSoFar("pendingMerges") + CallsOf("update") <= MAX_UPDATES_PER_SCAN
        /\ ContentUpdatesSoFar <= CallsOf("update")
        /\ AddedSoFar("pendingMerges") <= counters.mergeCount
        /\ CallsOf("update") <= MAX_UPDATES_PER_SCAN - counters.mergeCount

\* a finished scan that proposed two merges and so asked for one update
\* although two identified elements matched existing entries
C12_Witness ==
    /\ mode = "busy"
    /\ pc = "done"
    /\ result.exit = "scanned"
    /\ AddedSoFar("pendingMerges") = 2
    /\ Len(part.existingElements) = 2
    /\ CallsOf("update") = 1
    /\ ContentUpdatesSoFar = 1

\* ---- C13 ---------------------------------------------------------------

\* the pending merges the running scan has added to its state
MergesAdded ==
    {Deref(heap, updatedState).pendingMerges[i] :
        i \in (Len(inputSnapshot.state.pendingMerges) + 1)
                ..Len(Deref(heap, updatedState).pendingMerges)}

Folded(keys) == {toLowerCase(k) : k \in Range(keys)}

\* the case-folded names a merge has to choose its keys from: the existing
\* keys, the existing entry's display name when it has one, the new name
Candidates(m) ==
    Folded(m.existingKeys)
        \cup {toLowerCase(e.displayName) :
                 e \in {x \in Range(lorebook) : /\ x.displayName # <<>>
                                                /\ x.displayName = m.existingDisplayName
                                                /\ x.keys = m.existingKeys}}
        \cup {toLowerCase(m.newName)}

\* C13 as the specification states it: the proposed keys of every pending
\* merge hold the new element's name and every original key of the existing
\* entry, however many keys that entry has
C13_AsClaimed ==
    (mode \in ScanModes /\ updatedState # 0) =>
        \A m \in MergesAdded :
            /\ toLowerCase(m.newName) \in Folded(m.proposedKeys)
            /\ Folded(m.existingKeys) \subseteq Folded(m.proposedKeys)

\* C13: the proposed keys of a pending merge are at most 6 names, distinct
\* when case-folded, each of them an existing key, the existing display
\* name or the new name.  When the existing keys, the display name and the
\* new name make at most 6 distinct names, the proposed keys hold the new
\* name as the element spelt it and every existing key; when they make more
\* than 6, the proposed keys are 6 of the existing keys and display name, in
\* their order, and the new name is left out.
C13_KeysCappedAtSix ==
    (mode \in ScanModes /\ updatedState # 0) =>
        \A m \in MergesAdded :
            /\ Len(m.proposedKeys) <= MaxKeys
            /\ Cardinality(Folded(m.proposedKeys)) = Len(m.proposedKeys)
            /\ Folded(m.proposedKeys) \subseteq Candidates(m)
            /\ IF Cardinality(Candidates(m)) <= MaxKeys
               THEN /\ m.newName \in Range(m.proposedKeys)
                    /\ Folded(m.proposedKeys) = Candidates(m)
               ELSE /\ Len(m.proposedKeys) = MaxKeys
                    /\ (toLowerCase(m.newName) \notin Folded(m.existingKeys)
                          => m.newName \notin Range(m.proposedKeys))
                    /\ \A i \in 1..Len(m.existingKeys) :
                          i <= MaxKeys =>
                              toLowerCase(m.existingKeys[i]) \in Folded(m.proposedKeys)

\* a finished scan that proposed a merge onto an entry with six keys, whose
\* proposed keys lack the new name, and a merge onto an entry with one key,
\* whose proposed keys hold it
C13_Witness ==
    /\ mode = "busy"
    /\ pc = "done"
    /\ result.exit = "scanned"
    /\ \E m1, m2 \in MergesAdded :
          /\ Len(m1.existingKeys) = 6
          /\ m1.newName \notin Range(m1.proposedKeys)
          /\ Len(m2.existingKeys) = 1
          /\ m2.newName \in Range(m2.proposedKeys)

\* ---- C14 ---------------------------------------------------------------

RelationshipUpdatesSoFar ==
    Cardinality({i \in 1..Len(Deref(heap, updatedState).pendingUpdates) :
                    /\ i > Len(inputSnapshot.state.pendingUpdates)
                    /\ Deref(heap, updatedState).pendingUpdates[i].origin
                          = "relationship"})

\* C14: a relationships-only scan respects a fixed cap: it makes at most
\* MAX_RELATIONSHIP_UPDATES = 3 relationship-delta oracle calls, and so adds
\* at most 3 relationship updates, however many formatted character
\* entries the lorebook holds.
C14_AsClaimed ==
    (mode \in ScanModes /\ settings.relationshipsOnly /\ updatedState # 0) =>
        /\ CallsOf("relonly") <= MAX_RELATIONSHIP_UPDATES
        /\ RelationshipUpdatesSoFar <= MAX_RELATIONSHIP_UPDATES

\* ---- C15 ---------------------------------------------------------------

\* the oracle call recorded as l left a proposal in the state: a draft, a
\* content update, or (whatever the oracle said) a merge
Yielded(l) ==
    \/ l.pass \in {"generate", "update"} /\ l.outcome = "usable"
    \/ l.pass = "merge"

\* a later scan given the state s partitions an element of this name, with
\* or without a merge hint, into none of its lists
ExcludedLater(name, s) ==
    \A hint \in {<<>>, Mira} :
        partitionElements(<<Element(name, "character", hint)>>, lorebook, s)
            = EmptyPartition

\* C15: scanning is idempotent across scans: every element that yielded a
\* pending entry, merge or update in a scan is excluded by the partitioning
\* of a later scan that is given the returned state and identifies the same
\* element name.
C15_AsClaimed ==
    (mode \in ScanModes /\ pc = "done" /\ result.exit = "scanned") =>
        \A l \in olog :
            Yielded(l) => ExcludedLater(l.name, Deref(heap, result.state))

\* ------------------------------------------------------------------------
\* The task functions of Organize and of the enrich dialogue.  A body
\* operator gives what the try block comes to: the value it returns, or
\* Threw for an exception inside it, with what had been pushed until then.
\* ------------------------------------------------------------------------

\* try { body } catch (e) { log } ... return fallback
TryCatch(r, fallback) == Returned(IF r.threw THEN fallback ELSE r.val)

CONFIRM_BATCH == 5
CLASSIFY_BATCH == 12
MinClassifyConfidence == 3
MaxTargetCandidates == 20
MinPromptWord == 3

\* an entry of the lorebook as Organize sees it
BookEntry(id, displayName, keys, text) ==
    [id |-> id, displayName |-> displayName, keys |-> keys, text |-> text]

Candidate(entryA, entryB, reason) ==
    [entryA |-> entryA, entryB |-> entryB, reason |-> reason]

\* an item of parsed.results; pair = 0 stands for a missing or zero pair
DupResult(isDuplicate, pair, keepIndex) ==
    [isObject |-> TRUE, isDuplicate |-> isDuplicate, pair |-> pair,
     keepIndex |-> keepIndex, mergedTextIsString |-> FALSE, mergedText |-> <<>>,
     mergedKeysIsArray |-> FALSE, mergedKeys |-> <<>>, reason |-> ""]

NullResult == [DupResult(FALSE, 0, "A") EXCEPT !.isObject = FALSE]

\* confirmed.push({...}) for the result r of the batch
ConfirmedMerge(candidate, r) ==
    LET keep == IF r.keepIndex = "B" THEN candidate.entryB ELSE candidate.entryA
        remove == IF r.keepIndex = "B" THEN candidate.entryA ELSE candidate.entryB
    IN  [keepEntry |-> keep, removeEntry |-> remove,
         mergedText |-> IF r.mergedTextIsString THEN r.mergedText ELSE keep.text,
         mergedKeys |-> IF r.mergedKeysIsArray THEN r.mergedKeys ELSE keep.keys,
         reason |-> IF r.reason # "" THEN r.reason ELSE candidate.reason]

\* for (const r of parsed.results) { ... }: stops at a null item, which
\* throws; what was pushed before it stays in `confirmed`
RECURSIVE ConfirmResults(_, _, _)
ConfirmResults(candidates, results, confirmed) ==
    IF results = <<>> THEN Returned(confirmed)
    ELSE LET r == Head(results)
             pairIdx == (IF r.pair # 0 THEN r.pair ELSE 1) - 1
         IN  IF ~r.isObject THEN Threw(confirmed)
             ELSE IF ~r.isDuplicate \/ pairIdx < 0 \/ pairIdx >= Len(candidates)
             THEN ConfirmResults(candidates, Tail(results), confirmed)
             ELSE ConfirmResults(candidates, Tail(results),
                                 Append(confirmed,
                                        ConfirmedMerge(candidates[pairIdx + 1], r)))

\* the try block of one batch
ConfirmBatchBody(candidates, reply, confirmed) ==
    IF reply.kind = "throw" THEN Threw(confirmed)
    ELSE IF reply.kind = "ok" THEN ConfirmResults(candidates, reply.results, confirmed)
    ELSE Returned(confirmed)

\* the loop over the batches; replies[k] is the oracle's reply to batch k
RECURSIVE ConfirmBatches(_, _, _, _)
ConfirmBatches(candidates, replies, k, confirmed) ==
    IF (k - 1) * CONFIRM_BATCH >= Len(candidates) THEN confirmed
    ELSE ConfirmBatches(candidates, replies, k + 1,
            ConfirmBatchBody(SubSeq(candidates, (k - 1) * CONFIRM_BATCH + 1,
                                    Min2(k * CONFIRM_BATCH, Len(candidates))),
                             replies[k], confirmed).val)

ConfirmWithoutCatch(candidates, replies) ==
    IF \E k \in 1..Len(replies) :
          /\ (k - 1) * CONFIRM_BATCH < Len(candidates)
          /\ ConfirmBatchBody(<<>>, replies[k], <<>>).threw
    THEN Threw(<<>>)
    ELSE Returned(ConfirmBatches(candidates, replies, 1, <<>>))

confirmAndMergeDuplicates(candidates, replies) ==
    Returned(ConfirmBatches(candidates, replies, 1, <<>>))

\* an item of parsed.classifications; index = 0 stands for a missing index
Classification(index, type, confidence) ==
    [isObject |-> TRUE, index |-> index, type |-> type,
     confidenceIsNumber |-> TRUE, confidence |-> confidence]

NullClassification == [Classification(0, "", 0) EXCEPT !.isObject = FALSE]

RECURSIVE ClassifyItems(_, _, _)
ClassifyItems(entries, items, results) ==
    IF items = <<>> THEN Returned(results)
    ELSE LET c == Head(items)
             idx == (IF c.index # 0 THEN c.index ELSE 1) - 1
         IN  IF ~c.isObject THEN Threw(results)
             ELSE IF \/ idx < 0 \/ idx >= Len(entries)
                     \/ c.type \notin ALL_CATEGORIES
                     \/ ~c.confidenceIsNumber
                     \/ c.confidence < MinClassifyConfidence
             THEN ClassifyItems(entries, Tail(items), results)
             ELSE ClassifyItems(entries, Tail(items),
                                Append(results,
                                       [entryId |-> entries[idx + 1].id,
                                        displayName |-> entries[idx + 1].displayName,
                                        suggestedType |-> c.type,
                                        confidence |-> c.confidence]))

ClassifyBatchBody(entries, reply, results) ==
    IF reply.kind = "throw" THEN Threw(results)
    ELSE IF reply.kind = "ok"
    THEN ClassifyItems(entries, reply.classifications, results)
    ELSE Returned(results)

RECURSIVE ClassifyBatches(_, _, _, _)
ClassifyBatches(unknownEntries, replies, k, results) ==
    IF (k - 1) * CLASSIFY_BATCH >= Len(unknownEntries) THEN results
    ELSE ClassifyBatches(unknownEntries, replies, k + 1,
            ClassifyBatchBody(SubSeq(unknownEntries, (k - 1) * CLASSIFY_BATCH + 1,
                                     Min2(k * CLASSIFY_BATCH, Len(unknownEntries))),
                              replies[k], results).val)

classifyUnknownEntries(unknownEntries, replies) ==
    Returned(ClassifyBatches(unknownEntries, replies, 1, <<>>))

\* prompt.toLowerCase().split(/\s+/).filter(w => w.length > 2)
RECURSIVE SplitWords(_, _)
SplitWords(s, word) ==
    IF s = <<>> THEN <<word>>
    ELSE IF Head(s) = " " THEN <<word>> \o SplitWords(trimStart(s), <<>>)
    ELSE SplitWords(Tail(s), Append(word, Head(s)))

promptWords(prompt) ==
    SelectSeq(SplitWords(toLowerCase(prompt), <<>>),
              LAMBDA w : Len(w) >= MinPromptWord)

HitsIn(words, text) == Cardinality({i \in 1..Len(words) : includes(text, words[i])})

\* the score of an entry against the words of the prompt
PromptScore(entry, words) ==
    LET hits[k \in 0..Len(entry.keys)] ==
            IF k = 0 THEN 0
            ELSE hits[k - 1] + HitsIn(words, toLowerCase(entry.keys[k]))
    IN  2 * HitsIn(words, toLowerCase(entry.displayName)) + hits[Len(entry.keys)]

\* Array.prototype.sort((a, b) => b.score - a.score): stable, highest
\* score first
RECURSIVE SortByScore(_)
SortByScore(scored) ==
    IF scored = <<>> THEN <<>>
    ELSE LET top == CHOOSE i \in 1..Len(scored) :
                        \A j \in 1..Len(scored) :
                            \/ scored[j].score < scored[i].score
                            \/ scored[j].score = scored[i].score /\ i <= j
         IN  <<scored[top]>>
                \o SortByScore(SubSeq(scored, 1, top - 1)
                                 \o SubSeq(scored, top + 1, Len(scored)))

TargetCandidates(prompt, entries) ==
    Take(SortByScore([i \in 1..Len(entries) |->
                        [entry |-> entries[i],
                         score |-> PromptScore(entries[i], promptWords(prompt))]]),
         MaxTargetCandidates)

NoTarget == [found |-> FALSE]

\* the try block of identifyTargetEntry; an index that is not a whole
\* number selects no candidate, and reading `.entry` of undefined throws
IdentifyTargetBody(candidates, reply) ==
    IF reply.kind = "throw" THEN Threw(NoTarget)
    ELSE IF reply.kind = "ok" /\ reply.indexIsNumber
            /\ reply.index >= 0 /\ reply.index < Len(candidates)
    THEN IF reply.indexIsWhole
         THEN Returned([found |-> TRUE, entry |-> candidates[reply.index + 1].entry,
                        confidence |-> IF reply.confidenceIsNumber
                                       THEN Min2(MaxConfidence,
                                                 IF reply.confidence < MinConfidence
                                                 THEN MinConfidence
                                                 ELSE reply.confidence)
                                       ELSE DefaultConfidence])
         ELSE Threw(NoTarget)
    ELSE Returned(NoTarget)

identifyTargetEntry(prompt, entries, reply) ==
    IF Len(entries) = 0 THEN Returned(NoTarget)
    ELSE TryCatch(IdentifyTargetBody(TargetCandidates(prompt, entries), reply),
                  NoTarget)

\* ------------------------------------------------------------------------
\* Organize: classifyEntryType, findDuplicateCandidates, organizeLorebook.
\* The patterns of classifyEntryType that a line matches are recorded in
\* its traits next to the nine of looksLikeCharacterEntry.  Of the first
\* four character patterns two are patterns 1 and 8 of
\* looksLikeCharacterEntry; the other two (12, 13) are its patterns 6 and 7
\* with fewer words.  21..27 are the location patterns, 31..35 the item
\* patterns, 41..44 the faction patterns, 51..54 the concept patterns;
\* /^Name:/m and the like are read off the labels.
\* ------------------------------------------------------------------------

MinClassifiedText == 10
MinBestScore == 2
HeuristicBonus == 3
MAX_DUP_CANDIDATES == 15

TypeOrder == <<"character", "location", "item", "faction", "concept">>

PatternsOf(type) ==
    CASE type = "character" -> {1, 12, 13, 8}
      [] type = "location" -> 21..27
      [] type = "item" -> 31..35
      [] type = "faction" -> 41..44
      [] type = "concept" -> 51..54

CharacterLabels == {"Name", "Age", "Gender", "Relationships"}

TypeScore(text, type) ==
    Cardinality((UNION {l.traits : l \in Range(text)}) \cap PatternsOf(type))
      + (IF type = "character"
         THEN (IF looksLikeCharacterEntry(text) THEN HeuristicBonus ELSE 0)
              + (IF isCharacterEntryFormatted(text) THEN HeuristicBonus ELSE 0)
              + Cardinality({l.label : l \in Range(text)} \cap CharacterLabels)
         ELSE 0)

\* the top category whenever its score reaches MinBestScore, whatever the
\* runner-up
classifyByTopScore(text, displayName) ==
    IF text = <<>> \/ TextLength(text) < MinClassifiedText THEN "unknown"
    ELSE LET sorted == SortByScore([i \in 1..Len(TypeOrder) |->
                                      [type |-> TypeOrder[i],
                                       score |-> TypeScore(text, TypeOrder[i])]])
         IN  IF sorted[1].score < MinBestScore THEN "unknown" ELSE sorted[1].type

classifyEntryType(text, displayName) ==
    IF text = <<>> \/ TextLength(text) < MinClassifiedText THEN "unknown"
    ELSE LET sorted == SortByScore([i \in 1..Len(TypeOrder) |->
                                      [type |-> TypeOrder[i],
                                       score |-> TypeScore(text, TypeOrder[i])]])
         IN  IF sorted[1].score < MinBestScore THEN "unknown"
             ELSE IF sorted[2].score > 0 /\ 2 * sorted[1].score < 3 * sorted[2].score
             THEN "unknown"
             ELSE sorted[1].type

\* similarities are counted in units of 1/SimilarityScale, which is exact
\* for key sets whose union has at most 12 keys
SimilarityScale == 277200
Tenths(n) == (n * SimilarityScale) \div 10

Max2(a, b) == IF a > b THEN a ELSE b

NameSimilarity(nameA, nameB) ==
    IF nameA = nameB THEN [similarity |-> Tenths(10), reason |-> "Exact name match"]
    ELSE IF includes(nameA, nameB) \/ includes(nameB, nameA)
    THEN [similarity |-> Tenths(8), reason |-> "Name substring match"]
    ELSE IF Len(nameA) <= ShortNameLen /\ Len(nameB) <= ShortNameLen
            /\ levenshteinDistance(nameA, nameB) <= MaxEditDistance
    THEN [similarity |-> Tenths(7), reason |-> "Similar names"]
    ELSE [similarity |-> 0, reason |-> ""]

\* the pair (a, b) after the key-overlap test
PairSimilarity(a, b) ==
    LET byName == NameSimilarity(trim(toLowerCase(a.displayName)),
                                 trim(toLowerCase(b.displayName)))
        keysA == {toLowerCase(k) : k \in Range(a.keys)}
        keysB == {toLowerCase(k) : k \in Range(b.keys)}
        inter == Cardinality(keysA \cap keysB)
        union == Cardinality(keysA \cup keysB)
    IN  IF keysA # {} /\ keysB # {} /\ 10 * inter > 4 * union
        THEN [similarity |-> Max2(byName.similarity,
                                  Tenths(5) + (Tenths(3) * inter) \div union),
              reason |-> IF byName.reason # "" THEN byName.reason ELSE "Key overlap"]
        ELSE byName

\* the candidates pushed for the pairs (i, j), j > i, from pair (i, j) on
RECURSIVE CandidatesFrom(_, _, _)
CandidatesFrom(entries, i, j) ==
    IF i > Len(entries) THEN <<>>
    ELSE IF j > Len(entries) THEN CandidatesFrom(entries, i + 1, i + 2)
    ELSE LET a == entries[i]
             b == entries[j]
         IN  (IF trim(toLowerCase(a.displayName)) = <<>>
                    \/ trim(toLowerCase(b.displayName)) = <<>>
                    \/ PairSimilarity(a, b).similarity = 0
              THEN <<>>
              ELSE <<[entryA |-> a, entryB |-> b,
                      score |-> PairSimilarity(a, b).similarity,
                      reason |-> PairSimilarity(a, b).reason]>>)
                \o CandidatesFrom(entries, i, j + 1)

findDuplicateCandidates(entries) == SortByScore(CandidatesFrom(entries, 1, 2))

\* a cleanup id: `dup_${keepId}_${removeId}` or
\* `${cleanupType}_${entryId}_${classifiedType}`, as its three parts
CleanupId(kind, first, second) == <<kind, first, second>>

EntryFields(e) ==
    [id |-> e.id, displayName |-> e.displayName, keys |-> e.keys, text |-> e.text]

DuplicateCleanup(merge) ==
    [id |-> CleanupId("dup", merge.keepEntry.id, merge.removeEntry.id),
     type |-> "duplicate",
     keepEntry |-> EntryFields(merge.keepEntry),
     removeEntry |-> EntryFields(merge.removeEntry),
     mergedText |-> merge.mergedText, mergedKeys |-> merge.mergedKeys,
     reason |-> merge.reason]

\* Phase 1: classifications.get(entry.id), "" when the map has no type
HeuristicType(e) == classifyEntryType(e.text, e.displayName)

Unknowns(entries) == SelectSeq(entries, LAMBDA e : HeuristicType(e) = "unknown")

ClassifiedType(e, llmClassified) ==
    IF HeuristicType(e) # "unknown" THEN HeuristicType(e)
    ELSE LET hits == {i \in 1..Len(llmClassified) : llmClassified[i].entryId = e.id}
         IN  IF hits = {} THEN ""
             ELSE llmClassified[CHOOSE i \in hits : \A j \in hits : j <= i].suggestedType

typeToExpectedCatName(type) ==
    CASE type = "character" -> "Characters"
      [] type = "location" -> "Locations"
      [] type = "item" -> "Items"
      [] type = "faction" -> "Factions"
      [] type = "concept" -> "Concepts"

\* catName.toLowerCase() of the category names in use
LowerName(catName) ==
    CASE catName = "Characters" -> "characters"
      [] catName = "Locations" -> "locations"
      [] catName = "Items" -> "items"
      [] catName = "Factions" -> "factions"
      [] catName = "Concepts" -> "concepts"
      [] catName = "Lore Creator" -> "lore creator"
      [] OTHER -> catName

\* catNameToId[lowerName]: categoryMap is a sequence of <<catId, catName>>
\* in the order of Object.entries; "" stands for undefined
catNameToId(categoryMap, lowerName) ==
    LET hits == {i \in 1..Len(categoryMap) : LowerName(categoryMap[i][2]) = lowerName}
    IN  IF hits = {} THEN ""
        ELSE categoryMap[CHOOSE i \in hits : \A j \in hits : j <= i][1]

\* Phase 3 for one entry, proposing a cleanup whether or not it was dismissed
MoveCleanupsAgain(entry, classifiedType, categoryMap, dismissedSet) ==
    LET expectedCatName == typeToExpectedCatName(classifiedType)
        expectedCatId == catNameToId(categoryMap, LowerName(expectedCatName))
        loreCreatorCatId == catNameToId(categoryMap, "lore creator")
        cleanupType == IF entry.category = "" \/ entry.category = loreCreatorCatId
                       THEN "legacy-move" ELSE "recategorize"
    IN  IF entry.category # "" /\ entry.category = expectedCatId THEN <<>>
        ELSE <<[id |-> CleanupId(cleanupType, entry.id, classifiedType),
                type |-> cleanupType, entryId |-> entry.id,
                displayName |-> entry.displayName,
                currentCategoryId |-> entry.category,
                proposedCategory |-> expectedCatName,
                proposedType |-> classifiedType,
                proposedCategoryId |-> expectedCatId]>>

\* Phase 3 for one entry: its move cleanup, if it gets one
MoveCleanups(entry, classifiedType, categoryMap, dismissedSet) ==
    LET expectedCatName == typeToExpectedCatName(classifiedType)
        expectedCatId == catNameToId(categoryMap, LowerName(expectedCatName))
        loreCreatorCatId == catNameToId(categoryMap, "lore creator")
        cleanupType == IF entry.category = "" \/ entry.category = loreCreatorCatId
                       THEN "legacy-move" ELSE "recategorize"
        cleanupId == CleanupId(cleanupType, entry.id, classifiedType)
    IN  IF (entry.category # "" /\ entry.category = expectedCatId)
              \/ cleanupId \in dismissedSet
        THEN <<>>
        ELSE <<[id |-> cleanupId, type |-> cleanupType, entryId |-> entry.id,
                displayName |-> entry.displayName,
                currentCategoryId |-> entry.category,
                proposedCategory |-> expectedCatName,
                proposedType |-> classifiedType,
                proposedCategoryId |-> expectedCatId]>>

RECURSIVE Recategorize(_, _, _, _, _)
Recategorize(entries, i, llmClassified, categoryMap, dismissedSet) ==
    IF i > Len(entries) THEN <<>>
    ELSE (IF ClassifiedType(entries[i], llmClassified) = "" THEN <<>>
          ELSE MoveCleanups(entries[i], ClassifiedType(entries[i], llmClassified),
                            categoryMap, dismissedSet))
            \o Recategorize(entries, i + 1, llmClassified, categoryMap, dismissedSet)

\* Phase 2, given the candidates found
Deduplicate(dupCandidates, confirmReplies, dismissedSet) ==
    IF dupCandidates = <<>> THEN <<>>
    ELSE LET confirmed ==
                 confirmAndMergeDuplicates(Take(dupCandidates, MAX_DUP_CANDIDATES),
                                           confirmReplies).val
         IN  SelectSeq([i \in 1..Len(confirmed) |-> DuplicateCleanup(confirmed[i])],
                       LAMBDA c : c.id \notin dismissedSet)

\* organizeLorebook, given the oracle's replies to the classify batches and
\* to the confirm batches: the cleanups it returns
organizeLorebook(entries, categoryMap, dismissedSet, classifyReplies, confirmReplies) ==
    Deduplicate(findDuplicateCandidates(entries), confirmReplies, dismissedSet)
      \o Recategorize(entries, 1,
                      IF Unknowns(entries) = <<>> THEN <<>>
                      ELSE classifyUnknownEntries(Unknowns(entries),
                                                  classifyReplies).val,
                      categoryMap, dismissedSet)

\* ------------------------------------------------------------------------
\* Functions called on their own, on bounded arguments
\* ------------------------------------------------------------------------

MaxCurrent == 3
MaxProposed == 4
MaxScored == 3

NameChars == {"a", "A", "b", " "}

\* a proposal whose currentName or proposedName is not a string
NotStrings ==
    {[Proposal(<<"a">>, <<"a", " ", "b">>) EXCEPT !.currentIsString = c,
                                                  !.proposedIsString = q] :
        c \in BOOLEAN, q \in {FALSE}}

\* null as an item of the proposals array
NullItem == [Proposal(<<>>, <<>>) EXCEPT !.isObject = FALSE]

ProposalChoices ==
    {Proposal(c, q) : c \in SeqsUpTo(NameChars, MaxCurrent),
                      q \in SeqsUpTo(NameChars, MaxProposed)}
        \cup NotStrings

ProposalLists ==
    {<<x>> : x \in ProposalChoices}
        \cup {<<Proposal(<<"a">>, <<"a", " ", "b">>), NullItem>>, <<NullItem>>, <<>>}

NamesCalls ==
    {[fn |-> "propagateFamilyNames", reply |-> [kind |-> "ok", proposals |-> l]] :
        l \in ProposalLists}
      \cup {[fn |-> "propagateFamilyNames", reply |-> [kind |-> k, proposals |-> <<>>]] :
                k \in {"malformed", "throw"}}

ScoreCalls ==
    {[fn |-> "fuzzyNameScore", a |-> a, b |-> b] :
        a \in SeqsUpTo(NameChars, MaxScored), b \in SeqsUpTo(NameChars, 1)}

\* what the oracle's output can be when it is of no use to the task
FailureKinds == {"throw", "empty", "nonjson", "wrongshape"}

NumCandidates == 6
NumUnknown == 13

TaskBook ==
    <<BookEntry(1, Kael, <<KaelL>>, PlainProse(Kael)),
      BookEntry(2, Mira, <<Mira>>, PlainProse(Mira)),
      BookEntry(3, Bo, <<Bo>>, PlainProse(Bo)),
      BookEntry(4, KaelS, <<KaelL>>, PlainProse(KaelS))>>

\* the pairs of TaskBook, as findDuplicateCandidates lists pairs
PairAt(n) ==
    CASE n = 1 -> <<1, 2>> [] n = 2 -> <<1, 3>> [] n = 3 -> <<1, 4>>
      [] n = 4 -> <<2, 3>> [] n = 5 -> <<2, 4>> [] OTHER -> <<3, 4>>

TaskCandidates ==
    [n \in 1..NumCandidates |->
        Candidate(TaskBook[PairAt(n)[1]], TaskBook[PairAt(n)[2]], "similar")]

UnknownEntries ==
    [n \in 1..NumUnknown |-> BookEntry(n, <<"x">>, <<>>, <<>>)]

ConfirmReplies ==
    {[kind |-> "ok", results |-> l] :
        l \in {<<DupResult(TRUE, 1, "A")>>, <<DupResult(TRUE, 1, "B"), NullResult>>,
               <<NullResult, DupResult(TRUE, 1, "A")>>, <<DupResult(FALSE, 1, "A")>>,
               <<DupResult(TRUE, 0, "B"), DupResult(TRUE, 9, "A")>>, <<>>}}
      \cup {[kind |-> k, results |-> <<>>] : k \in FailureKinds}

ClassifyReplies ==
    {[kind |-> "ok", classifications |-> l] :
        l \in {<<Classification(1, "item", 4)>>,
               <<Classification(2, "location", 3), NullClassification>>,
               <<NullClassification, Classification(1, "item", 4)>>,
               <<Classification(1, "item", 2), Classification(1, "creature", 5)>>,
               <<>>}}
      \cup {[kind |-> k, classifications |-> <<>>] : k \in FailureKinds}

TargetReply(kind, isNumber, isWhole, index) ==
    [kind |-> kind, indexIsNumber |-> isNumber, indexIsWhole |-> isWhole,
     index |-> index, confidenceIsNumber |-> TRUE, confidence |-> 9]

TargetReplies ==
    {TargetReply("ok", TRUE, TRUE, i) : i \in {-1, 0, 1, 4}}
      \cup {TargetReply("ok", FALSE, TRUE, 0), TargetReply("ok", TRUE, FALSE, 0)}
      \cup {TargetReply(k, FALSE, TRUE, 0) : k \in FailureKinds}

FixMira == <<"f", "i", "x", " ", "M", "i", "r", "a">>

TaskCalls ==
    {[fn |-> "identifyLoreElements", reply |-> r] :
        r \in {[kind |-> "ok", elements |-> l] :
                  l \in {<<Element(Kael, "character", <<>>)>>,
                         <<Element(Kael, "character", <<>>), NullElement>>,
                         <<NullElement>>, <<>>}}
              \cup {[kind |-> k, elements |-> <<>>] : k \in FailureKinds}}
      \cup {[fn |-> "generateLoreEntryFromElement", reply |-> r] :
                r \in GenerateReplies(Element(Kael, "character", <<>>))
                        \cup {GenerateReply(k, <<>>) : k \in FailureKinds}}
      \cup {[fn |-> "detectEntryUpdate", reply |-> r] :
                r \in UpdateReplies(TaskBook[1])
                        \cup {[kind |-> k, noUpdate |-> FALSE, updatedText |-> <<>>] :
                                  k \in FailureKinds}}
      \cup {[fn |-> "updateRelationshipFields", reply |-> r] :
                r \in RelReplies \cup {RelReply(k, FALSE, <<>>) : k \in FailureKinds}}
      \cup {[fn |-> "enrichAndReformatEntry", reply |-> r] :
                r \in ReformatReplies(TaskBook[1])
                        \cup {[kind |-> "ok", text |-> <<>>],
                              [kind |-> "ok", text |-> <<BlankLine>>]}}
      \cup {[fn |-> "confirmAndMergeDuplicates", candidates |-> TaskCandidates,
              replies |-> <<r1, r2>>] : r1 \in ConfirmReplies, r2 \in ConfirmReplies}
      \cup {[fn |-> "classifyUnknownEntries", entries |-> UnknownEntries,
              replies |-> <<r1, r2>>] : r1 \in ClassifyReplies, r2 \in ClassifyReplies}
      \cup {[fn |-> "identifyTargetEntry", prompt |-> FixMira, entries |-> e,
              reply |-> r] : e \in {TaskBook, <<>>}, r \in TargetReplies}

\* the task function of a call, applied to the oracle's replies
TaskOf(call) ==
    CASE call.fn = "identifyLoreElements" ->
            identifyLoreElements(ALL_CATEGORIES, call.reply)
      [] call.fn = "generateLoreEntryFromElement" ->
            generateLoreEntryFromElement(Kael, "character", call.reply)
      [] call.fn = "detectEntryUpdate" -> detectEntryUpdate(call.reply)
      [] call.fn = "updateRelationshipFields" -> updateRelationshipFields(call.reply)
      [] call.fn = "enrichAndReformatEntry" -> enrichAndReformatEntry(call.reply)
      [] call.fn = "confirmAndMergeDuplicates" ->
            confirmAndMergeDuplicates(call.candidates, call.replies)
      [] call.fn = "classifyUnknownEntries" ->
            classifyUnknownEntries(call.entries, call.replies)
      [] call.fn = "identifyTargetEntry" ->
            identifyTargetEntry(call.prompt, call.entries, call.reply)

FnFrame ==
    /\ UNCHANGED <<mode, fnCall, dismissedCleanupIds>>
    /\ UNCHANGED partVars
    /\ UNCHANGED hybridVars
    /\ UNCHANGED scanVars

InitFn ==
    /\ mode = "fn"
    /\ dismissedCleanupIds = {}
    /\ fnCall \in NamesCalls \cup ScoreCalls \cup TaskCalls
    /\ fnOut = NoOutput
    /\ PartIdle
    /\ HybridIdle
    /\ ScanIdle

\* const proposals = await propagateFamilyNames(...), for one oracle reply
CallPropagateFamilyNames ==
    /\ mode = "fn"
    /\ fnCall.fn = "propagateFamilyNames"
    /\ ~fnOut.called
    /\ fnOut' = [called |-> TRUE, out |-> propagateFamilyNames(fnCall.reply)]
    /\ FnFrame

\* fuzzyNameScore(a, a) and fuzzyNameScore(a, b)
CallFuzzyNameScore ==
    /\ mode = "fn"
    /\ fnCall.fn = "fuzzyNameScore"
    /\ ~fnOut.called
    /\ fnOut' = [called |-> TRUE,
                 same |-> fuzzyNameScore(fnCall.a, fnCall.a),
                 other |-> fuzzyNameScore(fnCall.a, fnCall.b)]
    /\ FnFrame

\* const result = await <task function>(...), for the oracle's replies
CallTaskFunction ==
    /\ mode = "fn"
    /\ fnCall \in TaskCalls
    /\ ~fnOut.called
    /\ fnOut' = [called |-> TRUE, out |-> TaskOf(fnCall)]
    /\ FnFrame

NextFn ==
    \/ CallPropagateFamilyNames
    \/ CallFuzzyNameScore
    \/ CallTaskFunction

SpecFn == InitFn /\ [][NextFn]_vars

\* ------------------------------------------------------------------------
\* The template text functions, called on their own on bounded texts
\* ------------------------------------------------------------------------

MaxLines == 4

NameLine == Line("Name", <<"a">>, 7, {})
FamilyLabel == Line("Family", <<>>, 7, {})
FamilyWith == Line("Family", <<"b">>, 9, {})
ItemLine == Line("-", <<"a">>, 3, {})
IndentedItem == Line("-", <<"a">>, 5, {})
BackgroundLine == Line("Background", <<"c">>, 13, {})
ProseLine == Line("", <<"b">>, 1, {})
DashLine == Line("", <<"-", "b">>, 2, {})

LineChoices ==
    {NameLine, FamilyLabel, FamilyWith, ItemLine, IndentedItem, BlankLine,
     BackgroundLine}

TextChoices == SeqsUpTo(LineChoices, MaxLines)

\* updates as updateRelationshipFields hands them on: the lines of each
\* string, trimmed; <<>> for a field that is absent
FamilyUpdates ==
    {<<>>, <<ItemLine>>, <<ProseLine>>, <<DashLine>>, <<ItemLine, BlankLine, ProseLine>>}

UpdateChoices ==
    {[family |-> f, relationships |-> r] :
        f \in FamilyUpdates, r \in {<<>>, <<ItemLine>>}}
      \ {[family |-> <<>>, relationships |-> <<>>]}

\* str.split('\n').map(l => l.trim()): the lines of a string, trimmed
RECURSIVE SplitLines(_, _)
SplitLines(str, line) ==
    IF str = <<>> THEN <<line>>
    ELSE IF Head(str) = "\n" THEN <<line>> \o SplitLines(Tail(str), <<>>)
    ELSE SplitLines(Tail(str), Append(line, Head(str)))

\* a trimmed line of characters, as a line of a text
AsLine(chars) ==
    LET t == trim(chars)
    IN  IF t = <<>> THEN BlankLine
        ELSE IF Len(t) >= 2 /\ t[1] = "-" /\ t[2] = " "
        THEN Line("-", trimStart(SubSeq(t, 3, Len(t))),
                  2 + Len(trimStart(SubSeq(t, 3, Len(t)))), {})
        ELSE Line("", t, Len(t), {})

\* a string that is passed as an update: "" is no update
AsUpdate(str) ==
    IF str = <<>> THEN <<>>
    ELSE [i \in 1..Len(SplitLines(str, <<>>)) |-> AsLine(SplitLines(str, <<>>)[i])]

\* texts for classifyEntryType: lines of 6 characters that match patterns of
\* the five categories, up to MaxClassified of them
MaxClassified == 4

Sentence(traits) == Line("", <<"x">>, 6, traits)

SentenceChoices ==
    {Sentence({}), Sentence({21, 22}), Sentence({23}), Sentence({24}),
     Sentence({31, 32}), Sentence({31, 32, 33}), Sentence({41}), Sentence({12}),
     Line("Age", <<"3">>, 6, {})}

ClassifyCalls ==
    {[fn |-> "classifyEntryType", text |-> t] :
        t \in SeqsUpTo(SentenceChoices, MaxClassified)}

SpliceCalls ==
    {[fn |-> "spliceRelationshipFields", text |-> t, updates |-> u] :
        t \in TextChoices, u \in UpdateChoices}

ExtractCalls == {[fn |-> "extractField", text |-> t] : t \in TextChoices}

InitText ==
    /\ mode = "text"
    /\ dismissedCleanupIds = {}
    /\ fnCall \in SpliceCalls \cup ExtractCalls \cup ClassifyCalls
    /\ fnOut = NoOutput
    /\ PartIdle
    /\ HybridIdle
    /\ ScanIdle

\* spliceRelationshipFields(text, updates), and the same splice applied to
\* what it returned
CallSplice ==
    /\ mode = "text"
    /\ fnCall.fn = "spliceRelationshipFields"
    /\ ~fnOut.called
    /\ fnOut' = [called |-> TRUE,
                 out |-> spliceRelationshipFields(fnCall.text, fnCall.updates),
                 again |-> spliceRelationshipFields(
                               spliceRelationshipFields(fnCall.text, fnCall.updates),
                               fnCall.updates)]
    /\ FnFrame

\* spliceRelationshipFields(text, {family: extractField(text, 'Family')})
CallExtractThenSplice ==
    /\ mode = "text"
    /\ fnCall.fn = "extractField"
    /\ ~fnOut.called
    /\ fnOut' = [called |-> TRUE,
                 field |-> extractField(fnCall.text, "Family"),
                 out |-> spliceRelationshipFields(
                             fnCall.text,
                             [family |-> AsUpdate(extractField(fnCall.text, "Family")),
                              relationships |-> <<>>])]
    /\ FnFrame

\* classifyEntryType(text, displayName)
CallClassifyEntryType ==
    /\ mode = "text"
    /\ fnCall.fn = "classifyEntryType"
    /\ ~fnOut.called
    /\ fnOut' = [called |-> TRUE, out |-> classifyEntryType(fnCall.text, <<>>)]
    /\ FnFrame

NextText ==
    \/ CallSplice
    \/ CallExtractThenSplice
    \/ CallClassifyEntryType

SpecText == InitText /\ [][NextText]_vars

\* ------------------------------------------------------------------------
\* JSON recovery, called on its own on bounded oracle outputs
\* ------------------------------------------------------------------------

\* A parsed JSON value.  Every value has the same five fields, so that any
\* two values can be compared: kind is "null", "true", "false", "number",
\* "string", "array" or "object".
JVal(kind, num, str, keys, items) ==
    [kind |-> kind, num |-> num, str |-> str, keys |-> keys, items |-> items]

JNull == JVal("null", 0, <<>>, <<>>, <<>>)

Digits == <<"0", "1", "2", "3", "4", "5", "6", "7", "8", "9">>

Whitespace == {" ", "\n"}

DigitValue(c) == (CHOOSE d \in 1..Len(Digits) : Digits[d] = c) - 1

ParseFailed == [ok |-> FALSE, val |-> JNull, next |-> 0]

Parsed(val, next) == [ok |-> TRUE, val |-> val, next |-> next]

RECURSIVE SkipWs(_, _)
SkipWs(s, i) ==
    IF i <= Len(s) /\ s[i] \in Whitespace THEN SkipWs(s, i + 1) ELSE i

\* the characters of word stand at position i of s
StartsAt(s, i, word) ==
    /\ i + Len(word) - 1 <= Len(s)
    /\ \A k \in 1..Len(word) : s[i + k - 1] = word[k]

\* a string token: a quote, characters other than quote, backslash and line
\* break, a quote
ParseString(s, i) ==
    IF i > Len(s) \/ s[i] # "\"" THEN ParseFailed
    ELSE LET closing == {j \in (i + 1)..Len(s) : s[j] = "\""}
         IN  IF closing = {} THEN ParseFailed
             ELSE LET j == CHOOSE c \in closing : \A d \in closing : c <= d
                      body == SubSeq(s, i + 1, j - 1)
                  IN  IF \E k \in 1..Len(body) : body[k] \in {"\\", "\n"}
                      THEN ParseFailed
                      ELSE Parsed(JVal("string", 0, body, <<>>, <<>>), j + 1)

RECURSIVE DigitsEnd(_, _)
DigitsEnd(s, i) ==
    IF i <= Len(s) /\ s[i] \in Range(Digits) THEN DigitsEnd(s, i + 1) ELSE i

RECURSIVE NumberValue(_)
NumberValue(ds) ==
    IF ds = <<>> THEN 0
    ELSE 10 * NumberValue(SubSeq(ds, 1, Len(ds) - 1)) + DigitValue(ds[Len(ds)])

\* a number token without fraction and exponent: 0, or a digit 1-9 followed
\* by digits
ParseNumber(s, i) ==
    LET j == DigitsEnd(s, i)
    IN  IF j = i \/ (s[i] = "0" /\ j > i + 1) THEN ParseFailed
        ELSE Parsed(JVal("number", NumberValue(SubSeq(s, i, j - 1)), <<>>, <<>>, <<>>), j)

\* a property written twice keeps its first place and takes the later value
PutMember(obj, key, val) ==
    IF \E k \in 1..Len(obj.keys) : obj.keys[k] = key
    THEN LET k == CHOOSE k \in 1..Len(obj.keys) : obj.keys[k] = key
         IN  [obj EXCEPT !.items[k] = val]
    ELSE [obj EXCEPT !.keys = Append(@, key), !.items = Append(@, val)]

RECURSIVE ParseValue(_, _)
RECURSIVE ParseElements(_, _, _)
RECURSIVE ParseMembers(_, _, _)

\* the elements of an array from position i on, up to and with the "]"
ParseElements(s, i, arr) ==
    LET v == ParseValue(s, i)
        j == SkipWs(s, v.next)
    IN  IF ~v.ok \/ j > Len(s) THEN ParseFailed
        ELSE IF s[j] = "," THEN ParseElements(s, j + 1, [arr EXCEPT !.items = Append(@, v.val)])
        ELSE IF s[j] = "]" THEN Parsed([arr EXCEPT !.items = Append(@, v.val)], j + 1)
        ELSE ParseFailed

\* the members of an object from position i on, up to and with the "}"
ParseMembers(s, i, obj) ==
    LET k == ParseString(s, SkipWs(s, i))
        c == SkipWs(s, k.next)
    IN  IF ~k.ok \/ c > Len(s) \/ s[c] # ":" THEN ParseFailed
        ELSE LET v == ParseValue(s, c + 1)
                 j == SkipWs(s, v.next)
             IN  IF ~v.ok \/ j > Len(s) THEN ParseFailed
                 ELSE IF s[j] = "," THEN ParseMembers(s, j + 1, PutMember(obj, k.val.str, v.val))
                 ELSE IF s[j] = "}" THEN Parsed(PutMember(obj, k.val.str, v.val), j + 1)
                 ELSE ParseFailed

\* one JSON value from position i on, white space before it skipped
ParseValue(s, i) ==
    LET j == SkipWs(s, i)
    IN  IF j > Len(s) THEN ParseFailed
        ELSE IF s[j] = "{"
        THEN (IF SkipWs(s, j + 1) <= Len(s) /\ s[SkipWs(s, j + 1)] = "}"
              THEN Parsed(JVal("object", 0, <<>>, <<>>, <<>>), SkipWs(s, j + 1) + 1)
              ELSE ParseMembers(s, j + 1, JVal("object", 0, <<>>, <<>>, <<>>)))
        ELSE IF s[j] = "["
        THEN (IF SkipWs(s, j + 1) <= Len(s) /\ s[SkipWs(s, j + 1)] = "]"
              THEN Parsed(JVal("array", 0, <<>>, <<>>, <<>>), SkipWs(s, j + 1) + 1)
              ELSE ParseElements(s, j + 1, JVal("array", 0, <<>>, <<>>, <<>>)))
        ELSE IF s[j] = "\"" THEN ParseString(s, j)
        ELSE IF s[j] \in Range(Digits) THEN ParseNumber(s, j)
        ELSE IF StartsAt(s, j, <<"t", "r", "u", "e">>)
        THEN Parsed(JVal("true", 0, <<>>, <<>>, <<>>), j + 4)
        ELSE IF StartsAt(s, j, <<"f", "a", "l", "s", "e">>)
        THEN Parsed(JVal("false", 0, <<>>, <<>>, <<>>), j + 5)
        ELSE IF StartsAt(s, j, <<"n", "u", "l", "l">>) THEN Parsed(JNull, j + 4)
        ELSE ParseFailed

\* JSON.parse(text): the value, or threw when the text is not one JSON value
\* with nothing but white space around it
JSONparse(text) ==
    LET v == ParseValue(text, 1)
    IN  IF v.ok /\ SkipWs(text, v.next) > Len(text)
        THEN [threw |-> FALSE, val |-> v.val]
        ELSE [threw |-> TRUE, val |-> JNull]

\* (str.match(/c/g) || []).length
CountOf(str, c) == Cardinality({i \in 1..Len(str) : str[i] = c})

\* a match that ends at the first "}" behind the first "{"
JsonMatchShortest(raw) ==
    LET opens == {i \in 1..Len(raw) : raw[i] = "{"}
        first == CHOOSE i \in opens : \A j \in opens : i <= j
        closes == {i \in 1..Len(raw) : raw[i] = "}" /\ i > first}
        last == CHOOSE i \in closes : \A j \in closes : i <= j
    IN  IF opens = {} THEN <<>>
        ELSE IF closes = {} THEN <<>>
        ELSE SubSeq(raw, first, last)

\* raw.match(/\{[\s\S]*\}/): from the first "{" to the last "}" behind it,
\* <<>> standing for no match
JsonMatch(raw) ==
    LET opens == {i \in 1..Len(raw) : raw[i] = "{"}
        first == CHOOSE i \in opens : \A j \in opens : i <= j
        closes == {i \in 1..Len(raw) : raw[i] = "}" /\ i > first}
        last == CHOOSE i \in closes : \A j \in closes : j <= i
    IN  IF opens = {} THEN <<>>
        ELSE IF closes = {} THEN <<>>
        ELSE SubSeq(raw, first, last)

Repeat(c, n) == [i \in 1..n |-> c]

\* the closers recoverJSON appends: a quote when the quotes are odd, then the
\* missing "]", then the missing "}"
Closers(jsonStr) ==
    (IF CountOf(jsonStr, "\"") % 2 # 0 THEN <<"\"">> ELSE <<>>)
        \o Repeat("]", CountOf(jsonStr, "[") - CountOf(jsonStr, "]"))
        \o Repeat("}", CountOf(jsonStr, "{") - CountOf(jsonStr, "}"))

\* recoverJSON(raw): the parsed value, JNull for the null it returns
recoverJSON(raw) ==
    LET jsonStr == JsonMatch(raw)
    IN  IF jsonStr = <<>> THEN JNull
        ELSE IF ~JSONparse(jsonStr).threw THEN JSONparse(jsonStr).val
        ELSE JSONparse(jsonStr \o Closers(jsonStr)).val

\* Oracle outputs: valid JSON texts of every kind, and every text cut short
\* of one of them
Quoted(c) == <<"\"", c, "\"">>

Member(c, value) == Quoted(c) \o <<":">> \o value

Braced(inner) == <<"{">> \o inner \o <<"}">>

Bracketed(inner) == <<"[">> \o inner \o <<"]">>

ValidTexts ==
    { Braced(<<>>),
      Braced(Member("a", <<"1">>)),
      <<" ">> \o Braced(Member("a", <<"1">>)) \o <<"\n">>,
      Braced(Member("a", Braced(Member("b", <<"1">>)))),
      Braced(Member("a", Braced(Member("b", <<"1">>))) \o <<",">>
                 \o Member("c", Bracketed(<<"1", ",", "2">>))),
      Braced(Member("a", Bracketed(<<"1", ",">> \o Braced(Member("b", <<"2">>))))),
      Braced(Member("a", Bracketed(Braced(Member("b", Braced(<<>>)))))),
      Braced(Member("a", Quoted("}"))),
      Braced(Member("a", <<"1">>) \o <<",">> \o Member("a", <<"2">>)),
      Bracketed(<<"1", ",", "2">>),
      Bracketed(Braced(Member("a", <<"1">>)) \o <<",">> \o Braced(Member("b", <<"2">>))),
      Quoted("a"),
      <<"\"">> \o Braced(<<>>) \o <<"\"">>,
      <<"1", "2">>,
      <<"t", "r", "u", "e">>,
      <<"f", "a", "l", "s", "e">>,
      <<"n", "u", "l", "l">> }

CutTexts ==
    UNION {{SubSeq(t, 1, n) : n \in 1..(Len(t) - 1)} : t \in ValidTexts} \ ValidTexts

JsonCalls == {[fn |-> "recoverJSON", raw |-> t] : t \in ValidTexts \cup CutTexts}

InitJson ==
    /\ mode = "json"
    /\ dismissedCleanupIds = {}
    /\ fnCall \in JsonCalls
    /\ fnOut = NoOutput
    /\ PartIdle
    /\ HybridIdle
    /\ ScanIdle

\* recoverJSON(raw)
CallRecoverJSON ==
    /\ mode = "json"
    /\ ~fnOut.called
    /\ fnOut' = [called |-> TRUE, out |-> recoverJSON(fnCall.raw)]
    /\ FnFrame

SpecJson == InitJson /\ [][CallRecoverJSON]_vars

\* ------------------------------------------------------------------------
\* Organize run again and again by a caller who dismisses cleanups
\* ------------------------------------------------------------------------

MaxRuns == 2

OrgEntry(id, displayName, keys, text, category) ==
    [id |-> id, displayName |-> displayName, keys |-> keys, text |-> text,
     category |-> category]

\* a text matching two item patterns, one matching two location patterns
ItemProse(who) == << Line("", who, 40, {31, 33}) >>
PlaceProse(who) == << Line("", who, 40, {21, 24}) >>

\* Kael and "Kael S" are duplicate candidates by name; Mira is left to the
\* oracle to classify; Bo is a location filed nowhere
OrgBook ==
    <<OrgEntry(1, Kael, <<KaelL>>, ItemProse(Kael), "c-item"),
      OrgEntry(2, Mira, <<Mira>>, PlainProse(Mira), "c-lore"),
      OrgEntry(3, Bo, <<Bo>>, PlaceProse(Bo), ""),
      OrgEntry(4, KaelS, <<KaelS>>, ItemProse(KaelS), "c-place")>>

CategoryMaps ==
    {<<<<"c-item", "Items">>, <<"c-place", "Locations">>, <<"c-lore", "Lore Creator">>>>,
     <<<<"c-item", "Items">>, <<"c-lore", "Lore Creator">>>>}

\* what the oracle answers in a run: to the classify batch (Mira is its
\* entry 1) and to the confirm batch (Kael and "Kael S" are its pair 1)
OrgClassifyReplies ==
    {[kind |-> "ok", classifications |-> <<Classification(1, "item", 4)>>],
     [kind |-> "ok", classifications |-> <<Classification(1, "location", 3)>>],
     [kind |-> "ok", classifications |-> <<Classification(1, "item", 2)>>],
     [kind |-> "ok", classifications |-> <<Classification(1, "creature", 5)>>],
     [kind |-> "throw", classifications |-> <<>>]}

OrgConfirmReplies ==
    {[kind |-> "ok", results |-> <<DupResult(TRUE, 1, "A")>>],
     [kind |-> "ok", results |-> <<DupResult(TRUE, 1, "B")>>],
     [kind |-> "ok", results |-> <<DupResult(FALSE, 1, "A")>>],
     [kind |-> "throw", results |-> <<>>]}

OrganizeCalls ==
    {[fn |-> "organizeLorebook", entries |-> OrgBook, categoryMap |-> m] :
        m \in CategoryMaps}

Runs == IF fnOut.called THEN fnOut.runs ELSE 0

OrgFrame ==
    /\ UNCHANGED <<mode, fnCall>>
    /\ UNCHANGED partVars
    /\ UNCHANGED hybridVars
    /\ UNCHANGED scanVars

InitOrganize ==
    /\ mode = "organize"
    /\ fnCall \in OrganizeCalls
    /\ fnOut = NoOutput
    /\ dismissedCleanupIds = {}
    /\ PartIdle
    /\ HybridIdle
    /\ ScanIdle

\* const { cleanups } = await organizeLorebook(entries, ..., categoryMap,
\* dismissedCleanupIds), for the replies the oracle gives during the run
Organize ==
    /\ mode = "organize"
    /\ Runs < MaxRuns
    /\ \E classifyReply \in OrgClassifyReplies, confirmReply \in OrgConfirmReplies :
          fnOut' = [called |-> TRUE, runs |-> Runs + 1,
                    dismissed |-> dismissedCleanupIds,
                    classifyReply |-> classifyReply,
                    cleanups |-> organizeLorebook(fnCall.entries, fnCall.categoryMap,
                                                  dismissedCleanupIds,
                                                  <<classifyReply>>, <<confirmReply>>)]
    /\ UNCHANGED dismissedCleanupIds
    /\ OrgFrame

\* the user dismisses one of the cleanups the last run proposed
DismissCleanup ==
    /\ mode = "organize"
    /\ fnOut.called
    /\ \E i \in 1..Len(fnOut.cleanups) :
          /\ fnOut.cleanups[i].id \notin dismissedCleanupIds
          /\ dismissedCleanupIds' = dismissedCleanupIds \cup {fnOut.cleanups[i].id}
    /\ UNCHANGED fnOut
    /\ OrgFrame

NextOrganize ==
    \/ Organize
    \/ DismissCleanup

SpecOrganize == InitOrganize /\ [][NextOrganize]_vars

\* ---- C16 ---------------------------------------------------------------

\* the number of whitespace-separated parts of a name: its maximal runs of
\* characters that are not whitespace
PartsOf(name) == Words(name, FALSE)

\* a call on a reply that holds the single proposal, an object
OneProposal ==
    /\ fnCall.fn = "propagateFamilyNames"
    /\ fnOut.called
    /\ fnCall.reply.kind = "ok"
    /\ Len(fnCall.reply.proposals) = 1
    /\ fnCall.reply.proposals[1].isObject

TheProposal == fnCall.reply.proposals[1]

Accepted == fnOut.out.val = <<TheProposal>>
Rejected == fnOut.out.val = <<>>

KeepsFirstName(p) ==
    startsWith(toLowerCase(trim(p.proposedName)), toLowerCase(trim(p.currentName)))

RECURSIVE UpToSpace(_)
UpToSpace(name) ==
    IF name = <<>> \/ Head(name) = " " THEN <<>>
    ELSE <<Head(name)>> \o UpToSpace(Tail(name))

FirstPart(name) == UpToSpace(trimStart(name))

\* C17: the validator never lets the oracle rename or truncate a
\* character: for every accepted proposal currentName is a non-empty single
\* name and the first whitespace-separated part of proposedName equals
\* currentName case-insensitively, so that only a surname is appended.
C17_AsClaimed ==
    (OneProposal /\ Accepted) =>
        /\ PartsOf(TheProposal.currentName) = 1
        /\ toLowerCase(FirstPart(TheProposal.proposedName))
              = toLowerCase(trim(TheProposal.currentName))

\* what does hold of every accepted proposal: currentName has no second
\* part and proposedName, which has at least two, begins with its letters
C17_PrefixOnly ==
    (OneProposal /\ Accepted) =>
        /\ PartsOf(TheProposal.currentName) <= 1
        /\ startsWith(toLowerCase(FirstPart(TheProposal.proposedName)),
                      toLowerCase(trim(TheProposal.currentName)))

\* an accepted proposal that replaces the first name by a longer one
C17_Renamed ==
    /\ OneProposal
    /\ Accepted
    /\ TheProposal.currentName = <<"a">>
    /\ TheProposal.proposedName = <<"a", "b", " ", "b">>

\* ---- C18 ---------------------------------------------------------------

TaskFunctions ==
    {"identifyLoreElements", "generateLoreEntryFromElement", "detectEntryUpdate",
     "updateRelationshipFields", "enrichAndReformatEntry", "propagateFamilyNames",
     "confirmAndMergeDuplicates", "classifyUnknownEntries", "identifyTargetEntry"}

Batched == {"confirmAndMergeDuplicates", "classifyUnknownEntries"}

TaskCalled == fnOut.called /\ fnCall.fn \in TaskFunctions

\* the items of the array the task reads from an "ok" reply
ItemsOf(fn, reply) ==
    CASE fn = "identifyLoreElements" ->
            [i \in 1..Len(reply.elements) |->
                [isObject |-> reply.elements[i] # NullElement]]
      [] fn = "propagateFamilyNames" -> reply.proposals
      [] fn = "confirmAndMergeDuplicates" -> reply.results
      [] fn = "classifyUnknownEntries" -> reply.classifications
      [] OTHER -> <<>>

\* a reply that is a throw, empty output, output that is not JSON, JSON of
\* the wrong shape, or an array with a null item
BadReply(fn, reply) ==
    \/ reply.kind # "ok"
    \/ \E i \in 1..Len(ItemsOf(fn, reply)) : ~ItemsOf(fn, reply)[i].isObject
    \/ fn = "enrichAndReformatEntry" /\ TrimStartLines(reply.text) = <<>>
    \/ fn = "identifyTargetEntry" /\ ~reply.indexIsNumber

OracleFailed(call) ==
    IF call.fn \in Batched
    THEN \E k \in 1..Len(call.replies) : BadReply(call.fn, call.replies[k])
    ELSE BadReply(call.fn, call.reply)

\* the empty, null or no-update result of a task function
IsEmptyResult(fn, val) ==
    CASE fn = "generateLoreEntryFromElement" -> val = NullEntry
      [] fn = "updateRelationshipFields" -> val = NoUpdate
      [] fn = "identifyTargetEntry" -> ~val.found
      [] OTHER -> val = <<>>

RECURSIVE UntilNull(_)
UntilNull(items) ==
    IF items = <<>> \/ ~Head(items).isObject THEN <<>>
    ELSE <<Head(items)>> \o UntilNull(Tail(items))

UsableReply(fn, reply) ==
    IF fn = "confirmAndMergeDuplicates"
    THEN [kind |-> "ok",
          results |-> IF reply.kind = "ok" THEN UntilNull(reply.results) ELSE <<>>]
    ELSE [kind |-> "ok",
          classifications |-> IF reply.kind = "ok"
                              THEN UntilNull(reply.classifications) ELSE <<>>]

UsableCall(call) ==
    [call EXCEPT !.replies = [k \in 1..Len(call.replies) |->
                                 UsableReply(call.fn, call.replies[k])]]

SameCleanup(d, c) ==
    IF d[1] = "dup"
    THEN c.type = "duplicate" /\ {d[2], d[3]} = {c.keepEntry.id, c.removeEntry.id}
    ELSE c.type # "duplicate" /\ d[2] = c.entryId /\ d[3] = c.proposedType

\* C19 as the specification states it: no run of organizeLorebook returns a
\* cleanup for a pair of duplicate entries, or for a move of an entry, for
\* which the dismissed set it was given holds a cleanup id, whatever the
\* oracle answers (including which side it says to keep)
C19_AsClaimed ==
    fnCall.fn = "organizeLorebook" /\ fnOut.called =>
        \A i \in 1..Len(fnOut.cleanups) : \A d \in fnOut.dismissed :
            ~SameCleanup(d, fnOut.cleanups[i])

\* ---- C20 ---------------------------------------------------------------

Scored == fnCall.fn = "fuzzyNameScore" /\ fnOut.called

Blank(name) == \A i \in 1..Len(name) : name[i] = " "

\* C20 as the specification states it: fuzzyNameScore(a, a) is 1.0 for
\* every non-empty string a
C20_AsClaimed == (Scored /\ fnCall.a # <<>>) => fnOut.same = 10

\* C20: fuzzyNameScore(a, a) is 1.0 for every string a that holds a
\* character other than whitespace, and 0 for the empty string and for
\* every string of whitespace only.
C20_SelfScore ==
    Scored => fnOut.same = (IF Blank(fnCall.a) THEN 0 ELSE 10)

\* a name with a space before it and in mixed case scored against itself
C20_Witness ==
    /\ Scored
    /\ fnCall.a = <<" ", "A", "b">>
    /\ fnOut.same = 10

\* ---- C21 ---------------------------------------------------------------

Spliced == fnCall.fn = "spliceRelationshipFields" /\ fnOut.called

\* C21 as the specification states it: splicing the same update a second
\* time into the result of the first splice returns that result unchanged
C21_AsClaimed == Spliced => fnOut.again = fnOut.out

\* ---- C22 ---------------------------------------------------------------

\* the text without what is derived from its characters
Bytes(text) ==
    [i \in 1..Len(text) |->
        [label |-> text[i].label, rest |-> text[i].rest, len |-> text[i].len]]

\* a template-formatted text that contains a Family field went through
\* extractField and spliceRelationshipFields
ExtractedThenSpliced ==
    /\ fnCall.fn = "extractField"
    /\ fnOut.called
    /\ FirstIndex(fnCall.text, {"Family"}) # 0

\* C22 as the specification states it: splicing the extracted Family field
\* back reproduces the Family block and leaves the rest of the text
\* unchanged
C22_AsClaimed == ExtractedThenSpliced => Bytes(fnOut.out) = Bytes(fnCall.text)

\* ------------------------------------------------------------------------
\* C23  recoverJSON on valid JSON texts
\* ------------------------------------------------------------------------

Recovered == mode = "json" /\ fnOut.called

ValidJson(text) == ~JSONparse(text).threw

\* C23 as stated: for every valid JSON text (object, array, string, number,
\* literal) recoverJSON returns the value JSON.parse returns for that text.
C23_AsClaimed ==
    Recovered /\ ValidJson(fnCall.raw) => fnOut.out = JSONparse(fnCall.raw).val

\* C23: for every valid JSON text whose value is an object recoverJSON
\* returns the value JSON.parse returns for it; for a valid text whose value
\* is an array, a string, a number, true or false it returns something else
\* (null when the text holds no "{" with a "}" behind it, otherwise what the
\* span from the first "{" to the last "}" gives).
C23_ObjectsOnly ==
    Recovered /\ ValidJson(fnCall.raw) =>
        LET parsed == JSONparse(fnCall.raw).val
        IN  /\ parsed.kind = "object" => fnOut.out = parsed
            /\ parsed.kind \in {"array", "string", "number", "true", "false"} =>
                   /\ fnOut.out # parsed
                   /\ JsonMatch(fnCall.raw) = <<>> => fnOut.out = JNull

\* a valid object with two properties, one of them an object, the other
\* behind it, was recovered
C23_Witness ==
    /\ Recovered
    /\ ValidJson(fnCall.raw)
    /\ fnOut.out.kind = "object"
    /\ Len(fnOut.out.keys) = 2
    /\ fnOut.out.items[1].kind = "object"

\* ------------------------------------------------------------------------
\* C24  recoverJSON on truncated JSON texts
\* ------------------------------------------------------------------------

\* a text cut short of a valid one, with an unmatched "{" or "[" or an odd
\* number of quotes
Truncated(text) ==
    /\ text \in CutTexts
    /\ ~ValidJson(text)
    /\ \/ CountOf(text, "{") > CountOf(text, "}")
       \/ CountOf(text, "[") > CountOf(text, "]")
       \/ CountOf(text, "\"") % 2 # 0

\* C24 as stated, for the truncated texts that the stated repair does make
\* valid: recoverJSON of a truncated text is the value of that text with one
\* quote appended if its quotes are odd, then the missing "]" and the missing
\* "}", and is not null, texts without any "}" included.
C24_AsClaimed ==
    Recovered /\ Truncated(fnCall.raw) /\ ValidJson(fnCall.raw \o Closers(fnCall.raw)) =>
        /\ fnOut.out # JNull
        /\ fnOut.out = JSONparse(fnCall.raw \o Closers(fnCall.raw)).val

\* ------------------------------------------------------------------------
\* C25  classifyEntryType names a category only for a clear winner
\* ------------------------------------------------------------------------

Classified == mode = "text" /\ fnCall.fn = "classifyEntryType" /\ fnOut.called

Categories == Range(TypeOrder)

\* the highest score, and the highest score of the categories other than c
TopScore(text) ==
    CHOOSE n \in {TypeScore(text, c) : c \in Categories} :
        \A c \in Categories : TypeScore(text, c) <= n

RunnerUp(text, c) ==
    CHOOSE n \in {TypeScore(text, d) : d \in Categories \ {c}} :
        \A d \in Categories \ {c} : TypeScore(text, d) <= n

\* c has the strictly highest score, that score is at least 2, and the
\* runner-up is 0 or at most top / 1.5
ClearWinner(text, c) ==
    /\ TextLength(text) >= 10
    /\ TypeScore(text, c) = TopScore(text)
    /\ RunnerUp(text, c) < TypeScore(text, c)
    /\ TypeScore(text, c) >= 2
    /\ \/ RunnerUp(text, c) = 0
       \/ 2 * TypeScore(text, c) >= 3 * RunnerUp(text, c)

\* C25: classifyEntryType returns category c exactly when c has the strictly
\* highest score, that score is at least 2 and the runner-up score is 0 or the
\* top score is at least 1.5 times the runner-up; in every other case (text
\* under 10 characters, top score under 2, a tie, runner-up within a factor of
\* 1.5) it returns "unknown".
C25_ClearWinnerOnly ==
    Classified =>
        /\ \A c \in Categories : fnOut.out = c <=> ClearWinner(fnCall.text, c)
        /\ fnOut.out = "unknown" <=> ~\E c \in Categories : ClearWinner(fnCall.text, c)

\* a text with top score 3 and runner-up 2 was classified (1.5 times, the
\* boundary), and so were a tie at 2, a 4 against 3, and a text under 10
\* characters with a score of 2
C25_Witness ==
    /\ Classified
    /\ TopScore(fnCall.text) = 3
    /\ \E c \in Categories : ClearWinner(fnCall.text, c) /\ RunnerUp(fnCall.text, c) = 2

C25_SeenTie ==
    /\ Classified
    /\ TopScore(fnCall.text) = 2
    /\ Cardinality({c \in Categories : TypeScore(fnCall.text, c) = 2}) = 2
    /\ fnOut.out = "unknown"

C25_SeenNarrow ==
    /\ Classified
    /\ TopScore(fnCall.text) = 4
    /\ \E c \in Categories : TypeScore(fnCall.text, c) = 3
    /\ fnOut.out = "unknown"

C25_SeenShort ==
    /\ Classified
    /\ TextLength(fnCall.text) < 10
    /\ TopScore(fnCall.text) >= 2
    /\ fnOut.out = "unknown"

\* ------------------------------------------------------------------------
\* C26  a scan that no-ops does nothing further
\* ------------------------------------------------------------------------

\* the call returned because the story was too short ("guard"), because no
\* element was identified, or because partitioning left nothing
NoOpExits == {"guard", "no-elements", "all-excluded"}

\* C26: a scan that returns on a story under 100 characters has made no
\* oracle call at all; a scan that returns because identification gave no
\* element or partitioning left all three lists empty has made no call of any
\* pass but identify; in each case no copy of the state was made and the
\* result carries the state that was passed in, with the contents it had
\* when the call was made (charsSinceLastScan included).
C26_NoOpDoesNothing ==
    mode \in ScanModes /\ result.exit \in NoOpExits =>
        /\ pc = "done"
        /\ batch = <<>>
        /\ result.exit = "guard" => olog = {} /\ result.error
        /\ \A l \in olog : l.pass = "identify"
        /\ result.exit = "all-excluded" =>
              /\ Len(part.newElements) = 0
              /\ Len(part.existingElements) = 0
              /\ Len(part.mergeElements) = 0
        /\ counters = NoCounters
        /\ updatedState = 0
        /\ result.returned
        /\ result.state = stateRef
        /\ heap = Store(inputSnapshot.state)
        /\ Deref(heap, result.state) = inputSnapshot.state
        /\ Deref(heap, result.state).charsSinceLastScan
              = inputSnapshot.state.charsSinceLastScan

\* the oracle identified elements, every one of them was excluded or already
\* pending, and the call returned a state that holds pending work
C26_Witness ==
    /\ mode \in ScanModes
    /\ result.exit = "all-excluded"
    /\ \E l \in olog : l.pass = "identify" /\ l.outcome = "usable"
    /\ Len(inputSnapshot.state.pendingEntries) > 0
    /\ inputSnapshot.state.charsSinceLastScan > 0

C26_SeenGuard == mode \in ScanModes /\ result.exit = "guard" /\ storyLen < MinStoryChars

C26_SeenNoElements ==
    /\ mode \in ScanModes
    /\ result.exit = "no-elements"
    /\ \E l \in olog : l.pass = "identify"

\* ------------------------------------------------------------------------
\* C27  the passes of a full scan run in order
\* ------------------------------------------------------------------------

PassOrder ==
    <<"start", "identify", "generate", "merge", "update", "rel", "reformat",
      "names", "done">>

PassRank(p) == CHOOSE i \in 1..Len(PassOrder) : PassOrder[i] = p

FullScan == mode \in ScanModes /\ ~settings.relationshipsOnly

\* the pending merges of the working copy, <<>> before the copy exists
ProposedMerges(h, ref) == IF ref = 0 THEN <<>> ELSE Deref(h, ref).pendingMerges

\* C27: a full scan moves through identify, generate, merge, update-detect,
\* relationship-delta, reformat and name-propagation in that order and never
\* back; it moves to a later pass only in the step in which the last oracle
\* call of the running pass settles, so every call of the earlier passes has
\* settled before a call of a later pass is issued; and once the update pass
\* has begun no merge is proposed any more.
C27_PassesInOrder ==
    [][ FullScan =>
          /\ pc' # pc =>
                /\ PassRank(pc) < PassRank(pc')
                /\ InFlight(batch) <= 1
                /\ \A l \in olog' : PassRank(l.pass) < PassRank(pc')
          /\ \A l \in olog' \ olog : l.pass = pc
          /\ PassRank(pc) >= PassRank("update") =>
                ProposedMerges(heap', updatedState') = ProposedMerges(heap, updatedState)
      ]_vars

\* a full scan ended in which every one of the seven passes made a call, and
\* both a merge and an update were proposed
C27_Witness ==
    /\ FullScan
    /\ result.exit = "scanned"
    /\ {l.pass : l \in olog}
          = {"identify", "generate", "merge", "update", "rel", "reformat", "names"}
    /\ Len(Deref(heap, result.state).pendingMerges) > 0
    /\ \E u \in Range(Deref(heap, result.state).pendingUpdates) : u.origin = "content"

\* ------------------------------------------------------------------------
\* C28  one bounded batch at a time
\* ------------------------------------------------------------------------

Scanning == mode \in ScanModes

\* this step issues the calls of a batch
BatchStarts == batch' # <<>> /\ (pc' # pc \/ loopI' # loopI)

\* C28: the oracle calls in flight are those of one batch; a batch is issued
\* with at most one call per provider that is alive when it starts (at most
\* 2), only in the step in which the last call of the batch before it
\* settles, and between two such steps the number of calls in flight never
\* grows.
C28_OneBatchAtATime ==
    [][ Scanning =>
          /\ InFlight(batch') <= Len(batch')
          /\ Len(batch') <= 2
          /\ BatchStarts =>
                /\ InFlight(batch) <= 1
                /\ InFlight(batch') = Len(batch')
                /\ Len(batch') <= Len(getProviders(secondaryAlive'))
          /\ ~BatchStarts => InFlight(batch') <= InFlight(batch)
      ]_vars

\* two calls are in flight, and they are not the first batch of their pass
C28_Witness ==
    /\ mode \in ScanModes
    /\ InFlight(batch) = 2
    /\ loopI > 2
    /\ \E l \in olog : l.pass = pc

\* ------------------------------------------------------------------------
\* C29  how partitionElements classifies an element with a merge hint
\* ------------------------------------------------------------------------

\* the pair "<element name>-><merge hint>" is among the rejected merge pairs
\* (compared in lower case)
PairRejected(el) ==
    \E p \in Range(pState.rejectedMergeNames) :
        toLowerCase(p) = toLowerCase(el.name) \o Arrow \o toLowerCase(el.mergesWith)

\* the entry the hint resolves to (0 for none), and whether a pending merge
\* already claims it
HintTarget(el) == ResolveEntry(el.mergesWith, pEntries)

TargetClaimed(el) ==
    /\ HintTarget(el) # 0
    /\ \E m \in Range(pState.pendingMerges) :
          toLowerCase(m.existingDisplayName)
              = toLowerCase(IF pEntries[HintTarget(el)].displayName # <<>>
                            THEN pEntries[HintTarget(el)].displayName
                            ELSE el.mergesWith)

\* the list the claim assigns to an element that is not excluded
ClassOf(el) ==
    IF el.mergesWith # <<>> /\ ~PairRejected(el) /\ HintTarget(el) # 0 /\ ~TargetClaimed(el)
    THEN "merge"
    ELSE IF el.mergesWith # <<>> /\ (PairRejected(el) \/ TargetClaimed(el))
    THEN "new"
    ELSE IF ResolveEntry(el.name, pEntries) # 0 THEN "existing"
    ELSE "new"

\* the elements that are not excluded and fall into class, in input order
Classed(class) ==
    SelectSeq(pElements, LAMBDA el : ~IsExcluded(el, excludeNames(pState))
                                        /\ ClassOf(el) = class)

NamesOf(list) == [i \in 1..Len(list) |-> list[i].name]

\* C29: a non-excluded element with a merge hint is a merge candidate exactly
\* when its pair "<name>-><hint>" was not rejected and the hint resolves
\* (exact name or key, else fuzzy match of at least 0.7) to an entry that no
\* pending merge claims, and it is then filed with that entry; when the pair
\* was rejected or the target is claimed it is new; when the hint resolves to
\* no entry it is classified by its own name, existing on a match and new
\* otherwise.
C29_MergeHintClassified ==
    pResult.called =>
        /\ NamesOf(pResult.mergeElements) = NamesOf(Classed("merge"))
        /\ NamesOf(pResult.newElements) = NamesOf(Classed("new"))
        /\ NamesOf(pResult.existingElements) = NamesOf(Classed("existing"))
        /\ \A i \in 1..Len(pResult.mergeElements) :
              pResult.mergeElements[i].entry = pEntries[HintTarget(Classed("merge")[i])]
        /\ \A i \in 1..Len(pResult.existingElements) :
              pResult.existingElements[i].entry
                  = pEntries[ResolveEntry(Classed("existing")[i].name, pEntries)]

Hinted(class) ==
    {el \in Range(Classed(class)) : el.mergesWith # <<>>}

\* one hinted element became a merge candidate through a fuzzy match of its
\* hint, and another was filed as new because its pair had been rejected
C29_Witness ==
    /\ pResult.called
    /\ \E el \in Hinted("merge") :
          MapGet(entryByName(pEntries), toLowerCase(el.mergesWith)) = 0
    /\ \E el \in Hinted("new") : PairRejected(el)

\* a hinted element was filed as new because a pending merge claims its target
C29_SeenClaimed ==
    /\ pResult.called
    /\ \E el \in Hinted("new") : ~PairRejected(el) /\ TargetClaimed(el)

\* a hinted element whose hint resolves to no entry was filed as existing
\* under its own name, and another as new
C29_SeenUnresolved ==
    /\ pResult.called
    /\ \E el \in Hinted("existing") : HintTarget(el) = 0

C29_SeenUnresolvedNew ==
    /\ pResult.called
    /\ pEntries # <<>>
    /\ \E el \in Hinted("new") : HintTarget(el) = 0 /\ ~PairRejected(el)

\* ------------------------------------------------------------------------
\* C30  the proposed keys of a pending merge: number and casing
\* ------------------------------------------------------------------------

\* C30: the proposed keys of every pending merge a scan adds are at most 6,
\* no two of them equal when case is ignored; a proposed key that is the new
\* element's name ignoring case is that name as the element spelt it, and
\* every other proposed key is a key of the existing entry, or its display
\* name, spelt as the entry spells it.
C30_KeysKeepCasing ==
    (Scanning /\ updatedState # 0) =>
        \A m \in MergesAdded :
            /\ Len(m.proposedKeys) <= 6
            /\ \A i, j \in 1..Len(m.proposedKeys) :
                  toLowerCase(m.proposedKeys[i]) = toLowerCase(m.proposedKeys[j]) => i = j
            /\ \A k \in Range(m.proposedKeys) :
                  IF toLowerCase(k) = toLowerCase(m.newName) THEN k = m.newName
                  ELSE k \in Range(m.existingKeys) \cup {m.existingDisplayName}

\* a scan added a merge whose new name differs from a key of the existing
\* entry only in case, and a merge whose proposed keys hold an existing key
\* with a capital letter next to a new name with a capital letter
C30_Witness ==
    /\ Scanning
    /\ updatedState # 0
    /\ \E m \in MergesAdded :
          /\ m.newName \notin Range(m.existingKeys)
          /\ toLowerCase(m.newName) \in Folded(m.existingKeys)
          /\ m.newName \in Range(m.proposedKeys)
    /\ \E m \in MergesAdded :
          \E k \in Range(m.existingKeys) \cap Range(m.proposedKeys) :
              /\ k # toLowerCase(k)
              /\ m.newName # toLowerCase(m.newName)
              /\ m.newName \in Range(m.proposedKeys)

\* ---- C31 ---------------------------------------------------------------

UpdatesAdded ==
    {Deref(heap, updatedState).pendingUpdates[i] :
        i \in (Len(inputSnapshot.state.pendingUpdates) + 1)
                ..Len(Deref(heap, updatedState).pendingUpdates)}

UpdatedBy(origin) == {toLowerCase(u.displayName) : u \in {x \in UpdatesAdded : x.origin = origin}}

MergeTargets == {toLowerCase(m.existingDisplayName) : m \in MergesAdded}

\* the entries handed to updateRelationshipFields so far: those of the call in
\* flight and those of the calls that settled
SentToRelationships ==
    (IF pc = "rel" THEN {toLowerCase(work[batch[k].item].displayName) : k \in 1..Len(batch)}
     ELSE {})
        \cup {toLowerCase(l.name) : l \in {x \in olog : x.pass = "rel"}}

\* C31: the relationship-delta pass of a full scan never processes an entry
\* already touched by the merge or update-detect pass of the same scan: no
\* entry that is the target of a pending merge created in this scan, and no
\* entry that got a content update in this scan, is sent to the
\* relationship-delta oracle call or receives a relationship update.
C31_AsClaimed ==
    (FullScan /\ updatedState # 0) =>
        (MergeTargets \cup UpdatedBy("content"))
            \cap (SentToRelationships \cup UpdatedBy("relationship")) = {}

\* ---- C32 ---------------------------------------------------------------

\* the names Pass 4 skips: the subjects of the pending updates that were there
\* when the pass began, the targets of the pending merges and the dismissed
\* reformat names, all in lower case
SkippedByReformat ==
    {toLowerCase(u.displayName) :
        u \in {x \in Range(Deref(heap, updatedState).pendingUpdates) :
                  x.origin \notin {"reformat", "name"}}}
        \cup lowerNames(Deref(heap, updatedState).pendingMerges, "existingDisplayName")
        \cup {toLowerCase(n) : n \in Range(Deref(heap, updatedState).dismissedReformatNames)}

Reformattable(e) ==
    /\ e \in Range(lorebook)
    /\ TextLength(e.text) > MinEntryText
    /\ looksLikeCharacterEntry(e.text)
    /\ ~isCharacterEntryFormatted(e.text)
    /\ toLowerCase(e.displayName) \notin SkippedByReformat

ReformatCalls == {l \in olog : l.pass = "reformat"}

\* C32: the reformat pass only drafts a reformat for an existing entry that
\* looks like a character, is not yet template-formatted, and whose display
\* name is not already the subject of a pending update, the target of a
\* pending merge, or among the dismissed reformat names; it makes at most
\* MAX_UPDATES_PER_SCAN = 3 reformat oracle calls per scan, and adds a
\* pending update only when the reformatted text differs from the entry's
\* text.
C32_ReformatOnlyEligible ==
    (FullScan /\ updatedState # 0) =>
        /\ pc = "reformat" =>
              /\ Len(work) <= MAX_UPDATES_PER_SCAN
              /\ \A i \in 1..Len(work) : Reformattable(work[i])
              /\ \A k \in 1..Len(batch) : batch[k].item \in 1..Len(work)
              /\ \A k, j \in 1..Len(batch) : batch[k].item = batch[j].item => k = j
              /\ \A k \in 1..Len(batch) :
                    \A l \in ReformatCalls : l.name # work[batch[k].item].displayName
        /\ Cardinality(ReformatCalls) + (IF pc = "reformat" THEN Len(batch) ELSE 0)
              <= MAX_UPDATES_PER_SCAN
        /\ \A l \in ReformatCalls : \E e \in Range(lorebook) :
              e.displayName = l.name /\ Reformattable(e)
        /\ counters.reformatsFound <= Cardinality(ReformatCalls)
        /\ Cardinality({u \in UpdatesAdded : u.origin = "reformat"}) = counters.reformatsFound
        /\ \A u \in UpdatesAdded :
              u.origin = "reformat" =>
                  /\ u.updatedText # u.originalText
                  /\ u.updatedText # <<>>
                  /\ \E e \in Range(lorebook) :
                        /\ Reformattable(e)
                        /\ e.displayName = u.displayName
                        /\ e.text = u.originalText
                        /\ [pass |-> "reformat", name |-> e.displayName,
                            outcome |-> "usable"] \in olog

\* a finished scan of the five prose entries that proposed a merge onto Mira
\* and had Kael among the dismissed reformat names: it asked for a reformat
\* of Tess, Rook and Hex, not of Kael or Mira, and kept the one whose text
\* the oracle changed
C32_Witness ==
    /\ mode = "prose"
    /\ pc = "done"
    /\ result.exit = "scanned"
    /\ hasSecondary
    /\ toLowerCase(Kael) \in Range(inputSnapshot.state.dismissedReformatNames)
    /\ \E m \in MergesAdded : m.existingDisplayName = Mira
    /\ {l.name : l \in ReformatCalls} = {Tess, Rook, Hex}
    /\ [pass |-> "reformat", name |-> Rook, outcome |-> "nothing"] \in olog
    /\ {u.displayName : u \in {x \in UpdatesAdded : x.origin = "reformat"}} = {Tess}

\* a reformat pass that found four eligible entries and took three of them
C32_SeenCapped ==
    /\ mode = "prose"
    /\ pc = "reformat"
    /\ Len(characterEntries(lorebook, Deref(heap, updatedState))) > MAX_UPDATES_PER_SCAN
    /\ Len(work) = MAX_UPDATES_PER_SCAN

\* ---- C33 ---------------------------------------------------------------

NameUpdates == {u \in UpdatesAdded : u.origin = "name"}

\* the text with its first Name line, and nothing else, rewritten
OnlyNameLinePatched(text, proposedName) ==
    LET at == FirstIndex(text, {"Name"})
    IN  IF at = 0 THEN text
        ELSE [text EXCEPT ![at] = Line("Name", proposedName, 6 + Len(proposedName), {})]

\* C33: every name-propagation pending update patches only the Name field
\* line: its updatedText equals its originalText except for the first line
\* that starts with "Name:", which becomes "Name: <proposedName>";
\* name-propagation makes at most one oracle call per scan, and only when at
\* least 2 character entries exist among the existing entries and the
\* pending drafts.
C33_AsClaimed ==
    (FullScan /\ updatedState # 0) =>
        /\ \A u \in NameUpdates :
              u.updatedText = OnlyNameLinePatched(u.originalText, u.proposedDisplayName)
        /\ Cardinality({l \in olog : l.pass = "names"})
              + (IF pc = "names" THEN Len(batch) ELSE 0) <= 1
        /\ (pc = "names" \/ \E l \in olog : l.pass = "names") =>
              Len(allCharEntries(lorebook, Deref(heap, updatedState))) >= 2

\* ------------------------------------------------------------------------
\* The story text the prompts carry.  A text is taken by its length; a slice
\* is the pair of the index it starts at and its length.
\* ------------------------------------------------------------------------

MAX_INPUT_TEXT == 6000

\* s.slice(start) of a string of `len` characters: a negative start counts
\* from the end, and -0 is 0
sliceFrom(len, start) ==
    LET from == IF start < 0 THEN Max2(len + start, 0) ELSE Min2(start, len)
    IN  [from |-> from, length |-> len - from]

\* processText of identifyLoreElements
identifyProcessText(storyLength, contextLength, existingLineLength) ==
    LET contextOverhead == contextLength + existingLineLength
        textBudget == MAX_INPUT_TEXT - contextOverhead
    IN  IF storyLength > textBudget THEN sliceFrom(storyLength, -textBudget)
        ELSE [from |-> 0, length |-> storyLength]

\* comprehensionBlock of detectEntryUpdate: the context between two line breaks
comprehensionBlockLength(contextLength) ==
    IF contextLength > 0 THEN contextLength + 2 ELSE 0

\* contextText of detectEntryUpdate
updateContextText(storyLength, currentLength, contextLength) ==
    LET maxStoryChars == 4000 - currentLength - comprehensionBlockLength(contextLength) - 600
    IN  IF storyLength > maxStoryChars THEN sliceFrom(storyLength, -maxStoryChars)
        ELSE [from |-> 0, length |-> storyLength]

StoryLengths == {0, 1, 399, 3400, 3401, 5000, 6000, 6001, 9000}
ContextLengths == {0, 1, 2000, 3398, 3400, 5975, 6000, 7000}
ExistingLineLengths == {0, 25, 600}
CurrentLengths == {0, 400, 3400, 3401, 5000}

BudgetCalls ==
    {[fn |-> "identifyLoreElements", storyLength |-> s, contextLength |-> c,
      existingLineLength |-> x, currentLength |-> 0] :
        s \in StoryLengths, c \in ContextLengths, x \in ExistingLineLengths}
    \cup {[fn |-> "detectEntryUpdate", storyLength |-> s, contextLength |-> c,
           existingLineLength |-> 0, currentLength |-> t] :
             s \in StoryLengths, c \in ContextLengths, t \in CurrentLengths}

InitBudget ==
    /\ mode = "budget"
    /\ dismissedCleanupIds = {}
    /\ fnCall \in BudgetCalls
    /\ fnOut = NoOutput
    /\ PartIdle
    /\ HybridIdle
    /\ ScanIdle

\* identifyLoreElements(...) up to the prompt it builds
CallIdentifyPrompt ==
    /\ mode = "budget"
    /\ fnCall.fn = "identifyLoreElements"
    /\ ~fnOut.called
    /\ fnOut' = [called |-> TRUE,
                 out |-> identifyProcessText(fnCall.storyLength, fnCall.contextLength,
                                             fnCall.existingLineLength)]
    /\ FnFrame

\* detectEntryUpdate(...) up to the prompt it builds
CallUpdatePrompt ==
    /\ mode = "budget"
    /\ fnCall.fn = "detectEntryUpdate"
    /\ ~fnOut.called
    /\ fnOut' = [called |-> TRUE,
                 out |-> updateContextText(fnCall.storyLength, fnCall.currentLength,
                                           fnCall.contextLength)]
    /\ FnFrame

NextBudget == CallIdentifyPrompt \/ CallUpdatePrompt

SpecBudget == InitBudget /\ [][NextBudget]_vars

\* ---- C34 ---------------------------------------------------------------

\* what the story text may take of the prompt
StoryBudget ==
    IF fnCall.fn = "identifyLoreElements"
    THEN MAX_INPUT_TEXT - (fnCall.contextLength + fnCall.existingLineLength)
    ELSE 4000 - fnCall.currentLength - comprehensionBlockLength(fnCall.contextLength) - 600

\* C34: the story text sent to the oracle never exceeds its budget: in
\* identifyLoreElements the story portion is at most max(0, 6000 - context
\* overhead) characters, and in detectEntryUpdate at most max(0, 4000 -
\* current-text length - comprehension block length - 600) characters, for
\* every length of story text, current text and context, also when the
\* overhead reaches or exceeds the limit.
C34_AsClaimed ==
    (mode = "budget" /\ fnOut.called) => fnOut.out.length <= Max2(0, StoryBudget)

\* ---- C35 ---------------------------------------------------------------

EntriesAdded ==
    {Deref(heap, updatedState).pendingEntries[i] :
        i \in (Len(inputSnapshot.state.pendingEntries) + 1)
                ..Len(Deref(heap, updatedState).pendingEntries)}

\* text, category and confidence of a drafted entry are as the claim says
DraftInRange(e) ==
    /\ TextLength(e.text) > 0
    /\ \E el \in Range(part.newElements) :
          /\ el.category = e.category
          /\ [pass |-> "generate", name |-> el.name, outcome |-> "usable"] \in olog
    /\ Len(e.keys) <= MaxKeys
    /\ e.confidence \in MinConfidence..MaxConfidence

\* C35: every pending entry added by the generate pass has a non-empty
\* text, the element's category, at most 6 keys that are pairwise distinct,
\* and a confidence between 1 and 5 inclusive, whatever the oracle returned.
C35_AsClaimed ==
    (FullScan /\ updatedState # 0) =>
        \A e \in EntriesAdded :
            /\ DraftInRange(e)
            /\ \A i, j \in 1..Len(e.keys) : e.keys[i] = e.keys[j] => i = j

\* ---- C36 ---------------------------------------------------------------

Organized == mode = "organize" /\ fnOut.called

MoveTypes == {"legacy-move", "recategorize"}

Moves == {c \in Range(fnOut.cleanups) : c.type \in MoveTypes}

\* the types an entry is resolved to: its heuristic type, or for an entry
\* the heuristic leaves unknown the types the oracle gave it among the five
\* categories with a confidence of at least 3
ResolvedTypes(e) ==
    IF HeuristicType(e) # "unknown" THEN {HeuristicType(e)}
    ELSE IF fnOut.classifyReply.kind # "ok" THEN {}
    ELSE {c.type : c \in {x \in Range(fnOut.classifyReply.classifications) :
                             /\ x.index \in 1..Len(Unknowns(fnCall.entries))
                             /\ Unknowns(fnCall.entries)[x.index] = e
                             /\ x.type \in ALL_CATEGORIES
                             /\ x.confidence >= MinClassifyConfidence}}

CategoryNamed(e) ==
    {fnCall.categoryMap[i][2] :
        i \in {j \in 1..Len(fnCall.categoryMap) : fnCall.categoryMap[j][1] = e.category}}

InExpectedCategory(e, type) == typeToExpectedCatName(type) \in CategoryNamed(e)

Legacy(e) == e.category = "" \/ "Lore Creator" \in CategoryNamed(e)

MoveKind(e) == IF Legacy(e) THEN "legacy-move" ELSE "recategorize"

\* C36: organizeLorebook proposes a move cleanup for an entry if and only if
\* the entry has a resolved classification (a heuristic type other than
\* "unknown", or an oracle type among the five categories with confidence
\* of at least 3), the entry is not already in the category expected for
\* that type, and the cleanup id is not dismissed; the cleanup is
\* "legacy-move" exactly when the entry is uncategorized or in the "Lore
\* Creator" bucket and "recategorize" otherwise, and an entry left
\* unclassified never gets a move cleanup.
C36_MoveIffMisplaced ==
    Organized =>
        /\ \A e \in Range(fnCall.entries) :
              (\E m \in Moves : m.entryId = e.id)
                 <=> \E t \in ResolvedTypes(e) :
                        /\ ~InExpectedCategory(e, t)
                        /\ CleanupId(MoveKind(e), e.id, t) \notin fnOut.dismissed
        /\ \A m \in Moves : \E e \in Range(fnCall.entries) :
              /\ m.entryId = e.id
              /\ m.type = MoveKind(e)
              /\ m.proposedType \in ResolvedTypes(e)
              /\ m.id = CleanupId(m.type, e.id, m.proposedType)
        /\ \A i, j \in 1..Len(fnOut.cleanups) :
              (fnOut.cleanups[i].type \in MoveTypes
                 /\ fnOut.cleanups[j].type \in MoveTypes
                 /\ fnOut.cleanups[i].entryId = fnOut.cleanups[j].entryId) => i = j

\* a second run, after the user dismissed the recategorize cleanup of
\* "Kael S": the oracle filed Mira under items, so Mira (in the Lore Creator
\* bucket) and Bo (uncategorized) get a legacy-move, Kael (already among the
\* items) gets nothing, and "Kael S" is not proposed again
C36_Witness ==
    /\ Organized
    /\ fnOut.runs = 2
    /\ CleanupId("recategorize", 4, "item") \in fnOut.dismissed
    /\ {<<m.entryId, m.type, m.proposedType>> : m \in Moves}
          = {<<2, "legacy-move", "item">>, <<3, "legacy-move", "location">>}

\* a run in which the oracle's confidence was 2, and one in which its type
\* was none of the five: Mira stays unclassified and gets no cleanup
C36_SeenLowConfidence ==
    /\ Organized
    /\ fnOut.classifyReply.kind = "ok"
    /\ fnOut.classifyReply.classifications[1].confidence = 2
    /\ \A m \in Moves : m.entryId # 2
    /\ \E m \in Moves : m.entryId = 4 /\ m.type = "recategorize"

C36_SeenUnknownType ==
    /\ Organized
    /\ fnOut.classifyReply.kind = "ok"
    /\ fnOut.classifyReply.classifications[1].type = "creature"
    /\ \A m \in Moves : m.entryId # 2

\* ------------------------------------------------------------------------
\* The storyboard store (src/app/storyboard.js): reorderScenes on the
\* stored storyboard.  A stored storyboard is the sequence of its scenes;
\* NoStoryboard stands for a storyboard.json that cannot be read.
\* ------------------------------------------------------------------------

MaxScenes == 3
MaxReorders == 2

Scene(id, order) == [id |-> id, order |-> order]

NoStoryboard == [found |-> FALSE, scenes |-> <<>>]
Storyboard(scenes) == [found |-> TRUE, scenes |-> scenes]

\* scene ids are numbered; no scene has the id 0
SceneIdPool == 0..MaxScenes

StoredScenes == [i \in 1..MaxScenes |-> Scene(i, i - 1)]

\* the store at the start: storyboard "sb1" with its scenes, no "sb2"
StoreChoices ==
    {[sb1 |-> Storyboard(SubSeq(StoredScenes, 1, n)), sb2 |-> NoStoryboard] :
        n \in 0..MaxScenes}

SceneIdLists == UNION {[1..n -> SceneIdPool] : n \in 0..(MaxScenes + 1)}

Failure(error) == [success |-> FALSE, error |-> error]
Success == [success |-> TRUE, error |-> "none"]

\* sceneMap[id]: the scene stored under the id, the last one when several
\* scenes have it; 0 for undefined
sceneMap(scenes, id) ==
    LET hits == {i \in 1..Len(scenes) : scenes[i].id = id}
    IN  IF hits = {} THEN 0 ELSE CHOOSE i \in hits : \A j \in hits : j <= i

\* reordered.forEach((s, i) => { s.order = i; }): a scene object pushed more
\* than once ends with the index of its last place
Reindexed(scenes, sceneIds) ==
    [i \in 1..Len(sceneIds) |->
        [scenes[sceneMap(scenes, sceneIds[i])] EXCEPT
            !.order = (CHOOSE j \in {k \in 1..Len(sceneIds) : sceneIds[k] = sceneIds[i]} :
                          \A k \in 1..Len(sceneIds) : sceneIds[k] = sceneIds[i] => k <= j) - 1]]

\* reorderScenes(storyboardId, sceneIds) on a store: what it returns and
\* the store it leaves
reorderScenes(store, storyboardId, sceneIds) ==
    LET sb == store[storyboardId]
    IN  IF ~sb.found THEN [result |-> Failure("Storyboard not found"), store |-> store]
        ELSE IF Len(sceneIds) # Len(sb.scenes)
        THEN [result |-> Failure("Scene count mismatch"), store |-> store]
        ELSE IF \E i \in 1..Len(sceneIds) : sceneMap(sb.scenes, sceneIds[i]) = 0
        THEN [result |-> Failure("Unknown scene ID"), store |-> store]
        ELSE [result |-> Success,
              store |-> [store EXCEPT ![storyboardId] =
                            Storyboard(Reindexed(sb.scenes, sceneIds))]]

StoryboardCalls == {[fn |-> "reorderScenes", store |-> s] : s \in StoreChoices}

InitStoryboard ==
    /\ mode = "storyboard"
    /\ dismissedCleanupIds = {}
    /\ fnCall \in StoryboardCalls
    /\ fnOut = NoOutput
    /\ PartIdle
    /\ HybridIdle
    /\ ScanIdle

\* the store as the last call left it
StoredNow == IF fnOut.called THEN fnOut.after.store ELSE fnCall.store

Reorders == IF fnOut.called THEN fnOut.calls ELSE 0

\* ipcMain.handle('storyboard:reorder-scenes', ...): one call of reorderScenes
CallReorderScenes ==
    /\ mode = "storyboard"
    /\ Reorders < MaxReorders
    /\ \E storyboardId \in {"sb1", "sb2"}, sceneIds \in SceneIdLists :
          fnOut' = [called |-> TRUE, calls |-> Reorders + 1,
                    storyboardId |-> storyboardId, sceneIds |-> sceneIds,
                    before |-> StoredNow,
                    after |-> reorderScenes(StoredNow, storyboardId, sceneIds)]
    /\ FnFrame

SpecStoryboard == InitStoryboard /\ [][CallReorderScenes]_vars

\* ---- C37 ---------------------------------------------------------------

Reordered == mode = "storyboard" /\ fnOut.called

ScenesBefore == fnOut.before[fnOut.storyboardId].scenes
ScenesAfter == fnOut.after.store[fnOut.storyboardId].scenes

\* C37: reorderScenes either fails with {success: false, error} and leaves
\* the stored storyboard unchanged (unknown storyboard, id count different
\* from the scene count, unknown scene id), or succeeds and stores exactly
\* the previous scenes, each once, in the requested order with order equal
\* to the position; no list of ids makes it succeed while dropping or
\* duplicating a scene.
C37_AsClaimed ==
    Reordered =>
        IF fnOut.after.result.success
        THEN /\ Len(ScenesAfter) = Len(fnOut.sceneIds)
             /\ \A i \in 1..Len(ScenesAfter) :
                   /\ ScenesAfter[i].id = fnOut.sceneIds[i]
                   /\ ScenesAfter[i].order = i - 1
             /\ \A s \in Range(ScenesBefore) :
                   Cardinality({i \in 1..Len(ScenesAfter) : ScenesAfter[i].id = s.id}) = 1
        ELSE /\ fnOut.after.store = fnOut.before
             /\ \/ ~fnOut.before[fnOut.storyboardId].found
                \/ Len(fnOut.sceneIds) # Len(ScenesBefore)
                \/ \E i \in 1..Len(fnOut.sceneIds) :
                      \A s \in Range(ScenesBefore) : s.id # fnOut.sceneIds[i]

\* ---- C38 ---------------------------------------------------------------

StateIn == inputSnapshot.state
StateOut == Deref(heap, result.state)

\* `after` is `before` with n items appended
GrownBy(before, after, n) ==
    /\ Len(after) = Len(before) + n
    /\ SubSeq(after, 1, Len(before)) = before

\* C38: a scan is append-only on the proposal lists: the returned state's
\* pendingEntries, pendingMerges and pendingUpdates each start with the
\* input state's list, unchanged and in the same order; their lengths grow
\* by exactly summary.generated, summary.mergesFound, and
\* summary.updatesFound + relationshipUpdatesFound + reformatsFound +
\* nameProposals; the rejected and dismissed lists are unchanged; and
\* charsSinceLastScan is 0 whenever the scan ran to completion.
C38_AppendOnly ==
    (Scanning /\ result.returned) =>
        /\ GrownBy(StateIn.pendingEntries, StateOut.pendingEntries,
                   result.summary.generated)
        /\ GrownBy(StateIn.pendingMerges, StateOut.pendingMerges,
                   result.summary.mergesFound)
        /\ GrownBy(StateIn.pendingUpdates, StateOut.pendingUpdates,
                   result.summary.updatesFound
                     + result.summary.relationshipUpdatesFound
                     + result.summary.reformatsFound
                     + result.summary.nameProposals)
        /\ StateOut.rejectedNames = StateIn.rejectedNames
        /\ StateOut.dismissedUpdateNames = StateIn.dismissedUpdateNames
        /\ StateOut.rejectedMergeNames = StateIn.rejectedMergeNames
        /\ StateOut.dismissedReformatNames = StateIn.dismissedReformatNames
        /\ result.exit \in {"scanned", "relationships"} =>
              StateOut.charsSinceLastScan = 0

\* a finished scan of a state that already held a pending entry and a
\* pending update, which added an entry, a merge, and updates of two kinds
C38_Witness ==
    /\ mode = "scan"
    /\ result.returned
    /\ result.exit = "scanned"
    /\ Len(StateIn.pendingEntries) = 1
    /\ Len(StateIn.pendingUpdates) = 1
    /\ StateIn.charsSinceLastScan > 0
    /\ result.summary.generated = 1
    /\ result.summary.mergesFound = 1
    /\ result.summary.updatesFound + result.summary.reformatsFound
          + result.summary.nameProposals >= 2
    /\ Len(StateOut.pendingUpdates) >= 3

\* a relationships-only run that added a relationship update
C38_SeenRelationshipsOnly ==
    /\ Scanning
    /\ result.returned
    /\ result.exit = "relationships"
    /\ result.summary.relationshipUpdatesFound >= 1
    /\ StateOut.charsSinceLastScan = 0

\* ------------------------------------------------------------------------
\* The scans of SpecWide with every oracle call settling: a promise that
\* was issued is one day resolved or rejected, and the awaiting call then
\* resumes.  This is weak fairness of NextScan, WF_vars(NextScan), written
\* out: a step of NextScan is possible exactly until the call has returned
\* (first a call of scanForLore, then an oracle call in flight to settle),
\* so either the call returns or steps are taken again and again.
\* ------------------------------------------------------------------------

Returns == pc = "done"

SpecWideFair == SpecWide /\ ([]<>Returns \/ []<><<NextScan>>_vars)

\* ---- C39 ---------------------------------------------------------------

BatchedPasses == {"generate", "merge", "update", "reformat"}

ItemsOf2(b) == {b[k].item : k \in 1..Len(b)}

\* the step issues a batch of a batched pass
IssuesBatch == pc' \in BatchedPasses /\ (pc' # pc \/ ItemsOf2(batch') # ItemsOf2(batch))

\* C39: in each batched pass (generate, merge, update-detect, reformat)
\* every selected element is dispatched to an oracle call exactly once and
\* the loop terminates, also when the number of alive providers drops from
\* 2 to 1 between or during batches: each batch takes the elements that
\* follow those of the batch before it, in order and without a gap, the
\* first batch starts at the first element, the pass is left only when the
\* last element has been dispatched, a batched pass always has a call in
\* flight, and a scan that is in a batched pass comes to its end.
C39_EachElementOnce ==
    /\ [][ FullScan =>
             /\ IssuesBatch =>
                   /\ Len(batch') >= 1
                   /\ \A k \in 1..Len(batch') :
                         batch'[k].item
                            = (IF pc' = pc THEN batch[Len(batch)].item ELSE 0) + k
                   /\ batch'[Len(batch')].item <= Len(work')
             /\ (pc \in BatchedPasses /\ pc' = pc) => work' = work
             /\ (pc \in BatchedPasses /\ pc' # pc) => batch[Len(batch)].item = Len(work)
         ]_vars
    /\ [](FullScan /\ pc \in BatchedPasses => InFlight(batch) >= 1)
    /\ (pc \in BatchedPasses) ~> Returns

\* the secondary provider was disabled while the first batch of the reformat
\* pass was in flight, and the third entry is now dispatched on its own
C39_Witness ==
    /\ mode = "crowd"
    /\ pc = "reformat"
    /\ hasSecondary
    /\ ~secondaryAlive
    /\ Len(work) = 3
    /\ Len(batch) = 1
    /\ batch[1].item = 3
    /\ Cardinality({l \in olog : l.pass = "generate"}) = 4

\* the secondary provider was disabled during the generate pass, and the
\* reformat pass dispatches its entries one by one
C39_SeenOneByOne ==
    /\ mode = "crowd"
    /\ pc = "reformat"
    /\ ~secondaryAlive
    /\ Len(batch) = 1
    /\ batch[1].item = 2

\* ---- C40 ---------------------------------------------------------------

\* the places in pendingUpdates of the updates this scan appended
AddedAt ==
    (Len(inputSnapshot.state.pendingUpdates) + 1)
        ..Len(Deref(heap, updatedState).pendingUpdates)

UpdateAt(i) == Deref(heap, updatedState).pendingUpdates[i]

\* C40: within one scan at most one pending update is appended for any
\* existing entry, taken by its case-folded display name, across the
\* update-detect, relationship-delta, reformat and name-propagation passes,
\* also when two identified elements resolve to the same entry.
C40_AsClaimed ==
    (Scanning /\ updatedState # 0) =>
        \A i, j \in AddedAt :
            toLowerCase(UpdateAt(i).displayName) = toLowerCase(UpdateAt(j).displayName)
                => i = j

====
